---- MODULE Spec2Model ----
(***************************************************************************)
(* Transactional write path of go-gin-sqlx-template: the transaction       *)
(* manager (pkg/database/transaction.go), the user repository              *)
(* (internal/repository/postgres), and the user usecase                    *)
(* (internal/usecase/impl) with its best-effort dispatch after the write.  *)
(*                                                                         *)
(* Each process is one goroutine serving one call at a time.  A step is    *)
(* one interaction with the store, the event bus or the task queue, plus   *)
(* the local code that follows it up to the next interaction.              *)
(***************************************************************************)
EXTENDS Integers, Sequences, FiniteSets, TLC

(* ---------- bounds ---------- *)
MaxID == 2
MaxDepth == 2
MaxFnOps == 2
MaxPathID == 1
MaxSortLen == 5
MaxMsgs == 2
MaxTasks == 2
MaxRetry == 1
MaxCalls == 2

(* ---------- value sets ---------- *)
Procs == {"p1", "p2"}
Emails == {"a@x", "b@x"}
Names == {"ann", "bob"}
Passwords == {"secret", "longer-than-72-bytes"}
PanicVals == {"boom", "bang"}

Nil == <<>>
NoUser == [id |-> 0, email |-> "", name |-> ""]

ErrEmailExists == <<"email already exists">>
ErrUserNotFound == <<"user not found">>
ErrStore == <<"store error">>
ErrRollback == <<"rollback error">>
ErrFn == <<"fn error">>
ErrPublish == <<"publish error">>
ErrEnqueue == <<"enqueue error">>

\* fmt.Errorf("<msg>: %w", err)
Wrap(msg, err) == <<msg>> \o err

(* ---------- store ---------- *)
IdsOf(S) == {r.id : r \in S}

InsertOp(row) == [kind |-> "ins", row |-> row]
UpdateOp(row) == [kind |-> "upd", row |-> row]
DeleteOp(id) == [kind |-> "del", row |-> [NoUser EXCEPT !.id = id]]

\* effect of one statement on a set of rows
ApplyOp(S, o) ==
    CASE o.kind = "ins" -> S \cup {o.row}
      [] o.kind = "upd" -> {IF r.id = o.row.id THEN o.row ELSE r : r \in S}
      [] o.kind = "del" -> {r \in S : r.id # o.row.id}

RECURSIVE ApplyAll(_, _)
ApplyAll(S, ops) ==
    IF ops = <<>> THEN S ELSE ApplyAll(ApplyOp(S, Head(ops)), Tail(ops))

\* rows a statement touches (0 rows: the UPDATE/DELETE matched nothing)
Affected(S, o) ==
    IF o.kind = "ins" THEN 1 ELSE Cardinality({r \in S : r.id = o.row.id})

(* ---------- contexts and executors ---------- *)
\* a context.Context, reduced to the value stored under txKey
BackgroundCtx == [tx |-> FALSE]
WithValueTx(c) == [c EXCEPT !.tx = TRUE]

\* a lookup that never finds the transaction of the context
getTxFromContextNone(c) == FALSE
getTxFromContext(c) == c.tx

\* an executor lookup that hands out the pool whatever the context carries
GetExecutorPool(c) == "pool"
GetExecutor(c) == IF getTxFromContext(c) THEN "tx" ELSE "pool"

\* NewContainer passes the transaction manager to NewUserRepository
RepoHasTransactor == TRUE

\* the repository of the earlier revision, which ran every statement on r.db
getExecutorDB(c) == "pool"
getExecutor(c) == IF RepoHasTransactor THEN GetExecutor(c) ELSE "pool"

(* ---------- pure pieces of the code ---------- *)
\* bcrypt.GenerateFromPassword: rejects passwords longer than 72 bytes
HashFails(pw) == pw = "longer-than-72-bytes"

\* WithTransaction, after fn returned err
WTOnFnResult(err) == IF err # Nil THEN "rollback" ELSE "commit"

WTBeginReturn(err) == Wrap("failed to begin transaction", err)

\* a return that drops the rollback failure
WTRollbackReturnOriginal(rbErr, err) == err
WTRollbackReturn(rbErr, err) ==
    IF rbErr # Nil
    THEN <<"failed to rollback transaction">> \o rbErr \o <<"original error">> \o err
    ELSE err

\* a return that drops the commit failure
WTCommitReturnNil(cmErr) == Nil
WTCommitReturn(cmErr) ==
    IF cmErr # Nil THEN Wrap("failed to commit transaction", cmErr) ELSE Nil

\* the deferred function of WithTransaction, on a recovered panic value
WTDeferredSwallow(v) == "rollback"
WTDeferred(v) == "rollback-and-repanic"

\* what the store keeps of a transaction's statements
CommitEffect(S, ops) == ApplyAll(S, ops)
\* a rollback that leaves the statements in place
RollbackEffectKeeps(S, ops) == ApplyAll(S, ops)
RollbackEffect(S, ops) == S

\* the usecases after the write returned err (CreateUser, UpdateUser) and
\* after WithTransaction returned err (CreateUserWithTransaction)
CreateUser_AfterCreate(err) == IF err # Nil THEN "return-error" ELSE "dispatch"
UpdateUser_AfterUpdate(err) == IF err # Nil THEN "return-error" ELSE "dispatch"
\* a usecase that goes on to dispatch whatever WithTransaction returned
CUWT_AfterTransactionAlways(err) == "dispatch"
CUWT_AfterTransaction(err) == IF err # Nil THEN "return-error" ELSE "dispatch"

\* what a usecase returns once the write went through: dispatch errors are logged
AfterDispatchPropagates(pubErr, enqErr) == IF pubErr # Nil THEN pubErr ELSE enqErr
AfterDispatch(pubErr, enqErr) == Nil

\* worker.NewTelegramMessageTask: json.Marshal of strings cannot fail
NewTelegramMessageTaskFails(text) == [task |-> <<>>, err |-> <<"marshal error">>]
NewTelegramMessageTask(text) == [task |-> <<"telegram:send_message", text>>, err |-> Nil]

(* ---------- state ---------- *)
VARIABLES
    users,     \* committed rows of table users
    nextID,    \* the id sequence of table users
    pc,        \* per goroutine: where it is
    op,        \* per goroutine: the call it serves
    req,       \* per goroutine: the request
    cur,       \* per goroutine: the usecase's local *model.User
    ctx,       \* per goroutine: the context of the running scope
    txOpen,    \* per goroutine: its transaction is begun and not finished
    frames,    \* per goroutine: the WithTransaction calls on its stack
    flog,      \* per goroutine: the statements issued by fn, in order
    lastCall,  \* per goroutine: the last repository call
    hist,      \* per goroutine: what happened in the current call
    result,    \* per goroutine: what the call returned
    menu,      \* per goroutine: the calls it is there to make
    ga,        \* per goroutine: the errgroup and the locals of GetAllUsers
    cache,     \* the redis keys written by the cache middleware, with their values
    http,      \* per goroutine: the HTTP request it serves and its response
    listReq,   \* a GET /api/v1/users request: its query string and its handling
    wk,        \* the worker process: its context, subscription loops and tasks
    pubs       \* pubsub.Client: the publishers map and the handles created

vars == <<users, nextID, pc, op, req, cur, ctx, txOpen, frames, flog,
          lastCall, hist, result, menu, ga, cache, http, listReq, wk, pubs>>

\* the state of the HTTP layer, and the state that the write path never touches
aside == <<wk, pubs>>
lists == <<ga, listReq, aside>>
web == <<cache, http, listReq, aside>>
rest == <<ga, cache, http, listReq, aside>>

\* model.CreateUserRequest, model.UpdateUserRequest ("" is an absent field)
CreateRequests ==
    {[id |-> 0, email |-> e, name |-> "ann", password |-> pw] :
        e \in Emails, pw \in Passwords}
UpdateRequests ==
    {[id |-> i, email |-> e, name |-> n, password |-> ""] :
        i \in 1..MaxID, e \in {""} \cup Emails, n \in {"", "bob"}}

NoReq == [id |-> 0, email |-> "", name |-> "", password |-> ""]
NoCall == [op |-> "", tx |-> FALSE, exec |-> ""]
NoResult == [status |-> "none", err |-> Nil, user |-> NoUser]

\* GetAllUsers before it has started its two goroutines: their positions, the
\* variables users, total and err they share with the caller, and the errgroup
NoList ==
    [list |-> "off", count |-> "off",
     rows |-> {}, total |-> 0, err |-> Nil,
     first |-> Nil, cancelled |-> FALSE,
     listErr |-> Nil, countErr |-> Nil, out |-> [rows |-> {}, total |-> 0]]

HistInit ==
    [begins |-> 0, commits |-> 0, rollbacks |-> 0,
     fnReturned |-> FALSE, fnErr |-> Nil, rbErr |-> Nil,
     wtReturned |-> FALSE, wtRet |-> Nil,
     panicked |-> FALSE, panicVal |-> "", repanicked |-> "",
     before |-> {}, committed |-> FALSE,
     fnOps |-> 0, failedOps |-> {}, committedOps |-> {},
     lookup |-> "none", written |-> FALSE, writeErr |-> Nil,
     pub |-> "none", enq |-> "none", dispatchInTx |-> FALSE]

\* statements of p's transaction that are waiting for commit
Pending(p) ==
    LET keep(e) == e.err = Nil /\ e.exec = "tx"
        sel == SelectSeq(flog[p], keep)
    IN  [i \in 1..Len(sel) |-> sel[i].op]

PendingIdx(p) ==
    {i \in 1..Len(flog[p]) : flog[p][i].err = Nil /\ flog[p][i].exec = "tx"}

\* the rows a statement sees through executor e
Visible(p, e) ==
    IF e = "tx" /\ txOpen[p] THEN ApplyAll(users, Pending(p)) ELSE users

\* a row-level lock held by another open transaction
LockedByOther(p, id) ==
    \E q \in Procs \ {p} :
        /\ txOpen[q]
        /\ \E i \in PendingIdx(q) :
              flog[q][i].op.kind # "ins" /\ flog[q][i].op.row.id = id

\* the methods of userUsecase
(* ---------- query string of GET /api/v1/users (pkg/utils) ---------- *)
\* a string is a sequence of tokens: words, and the separators "," and ":"
Words == {"name", "pw", "desc", "DESC"}
Tokens == Words \cup {",", ":"}
Strings(n) == UNION {[1..k -> Tokens] : k \in 0..n}

\* strings.Split
RECURSIVE Split(_, _)
Split(s, sep) ==
    IF \A i \in 1..Len(s) : s[i] # sep
    THEN <<s>>
    ELSE LET i == CHOOSE k \in 1..Len(s) : s[k] = sep /\ \A j \in 1..(k - 1) : s[j] # sep
         IN <<SubSeq(s, 1, i - 1)>> \o Split(SubSeq(s, i + 1, Len(s)), sep)

\* strings.ToLower
ToLower(s) == [i \in 1..Len(s) |-> IF s[i] = "DESC" THEN "desc" ELSE s[i]]

\* handler: getAllUsersAllowedFilters, getAllUsersAllowedSorts, getAllUsersDefaultSorts
getAllUsersAllowedFilters == {"name", "email"}
getAllUsersAllowedSorts ==
    [k \in {<<"id">>, <<"email">>, <<"name">>, <<"created_at">>, <<"updated_at">>} |-> k[1]]
getAllUsersDefaultSorts == <<[Field |-> "created_at", Direction |-> "desc"]>>

ErrSortValidation == <<"invalid sort">>
ErrFilterValidation == <<"invalid query parameters">>

\* the loop of ParseSorts over the parts of the sort parameter, from part i on
RECURSIVE ParseSortsLoop(_, _, _, _)
ParseSortsLoop(parts, i, allowedFields, st) ==
    IF i > Len(parts) THEN st
    ELSE
        LET item == Split(parts[i], ":")
            fieldKey == item[1]
            dir == ToLower(item[2])
            next ==
                IF fieldKey \notin DOMAIN allowedFields
                THEN [st EXCEPT !.invalidFields = Append(@, fieldKey)]
                ELSE IF fieldKey \in st.used
                THEN st
                ELSE IF Len(item) = 2 /\ dir # <<"asc">> /\ dir # <<"desc">>
                THEN [st EXCEPT !.used = @ \cup {fieldKey},
                                !.invalidDirections = Append(@, dir)]
                ELSE [st EXCEPT !.used = @ \cup {fieldKey},
                                !.sorts = Append(@,
                                    [Field |-> allowedFields[fieldKey],
                                     Direction |-> IF Len(item) = 2 THEN dir[1] ELSE "asc"])]
        IN ParseSortsLoop(parts, i + 1, allowedFields, next)

\* utils.ParseSorts; sortQuery is c.Query("sort"), "" when the parameter is absent
ParseSorts(sortQuery, allowedFields, defaultSorts) ==
    IF sortQuery = <<>>
    THEN [sorts |-> defaultSorts, err |-> Nil]
    ELSE
        LET st == ParseSortsLoop(Split(sortQuery, ","), 1, allowedFields,
                                 [sorts |-> <<>>, invalidFields |-> <<>>,
                                  invalidDirections |-> <<>>, used |-> {}])
        IN IF st.invalidFields # <<>> \/ st.invalidDirections # <<>>
           THEN [sorts |-> <<>>, err |-> ErrSortValidation]
           ELSE IF st.sorts = <<>>
           THEN [sorts |-> defaultSorts, err |-> Nil]
           ELSE [sorts |-> st.sorts, err |-> Nil]

\* utils.ParseFilters; params are the names of the parameters of the query string
ParseFilters(params, allowedParams) ==
    IF params \ (allowedParams \cup {"page", "limit"}) # {}
    THEN [filters |-> {}, err |-> ErrFilterValidation]
    ELSE [filters |-> params \cap allowedParams, err |-> Nil]

\* QueryBuilder.SetOrderBy: the ORDER BY clause of the list query
ToUpper(d) == IF d = "desc" THEN "DESC" ELSE IF d = "asc" THEN "ASC" ELSE d
SetOrderBy(sorts) == [i \in 1..Len(sorts) |-> <<sorts[i].Field, ToUpper(sorts[i].Direction)>>]

\* the query strings of the requests: the sort parameter, absent or with a
\* value, and the names of the other parameters
OtherParams == {{}, {"page", "name"}, {"bogus"}}
ListQueries ==
    {[params |-> o, sort |-> <<>>] : o \in OtherParams}
    \cup {[params |-> o \cup {"sort"}, sort |-> v] :
              o \in OtherParams, v \in Strings(MaxSortLen)}
NoListReq ==
    [params |-> {}, sort |-> <<>>, stage |-> "none", sorts |-> <<>>, sortErr |-> Nil,
     filters |-> {}, filterErr |-> Nil, status |-> 0, called |-> FALSE, orderBy |-> <<>>]

(* ---------- worker process and pubsub client: initial values ---------- *)
\* the subscriptions handed to Worker.Start, and the deliveries of each
Subs == {"user-created", "user-updated"}
Msgs == 1..MaxMsgs
Tasks == 1..MaxTasks
Topics == {"user.created", "user.updated"}

NoMsg == [st |-> "queued", ret |-> "none", acks |-> 0, nacks |-> 0]
NoTask == [st |-> "none", payload |-> "", ret |-> <<"none">>, sends |-> 0, sent |-> "none"]

\* cmd/worker main before it has started anything
NoWorker ==
    [ctx |-> "live", main |-> "init", crashed |-> FALSE, recovered |-> FALSE,
     loop |-> [s \in Subs |-> "off"],
     msg |-> [s \in Subs |-> [m \in Msgs |-> NoMsg]],
     task |-> [t \in Tasks |-> NoTask]]

\* pubsub.NewClient: no publisher yet
\* handles are numbered in the order of their creation; 0 is no handle
Handles == 1..(2 * MaxCalls)
NoPublishers ==
    [map |-> [t \in Topics |-> 0], created |-> {}, rets |-> {},
     stops |-> [h \in Handles |-> 0], closed |-> FALSE,
     call |-> [p \in Procs |-> [at |-> "off", topic |-> "", mine |-> 0, got |-> 0, n |-> 0]]]

\* an HTTP request on /api/v1/users or /api/v1/users/:id and its response.
\* The :id segment is a decimal number or "-1", which strconv.ParseUint
\* rejects; query is the query string the client appended to the path
BadID == -1
IdParams == {BadID} \cup (1..MaxPathID)
Queries == {"", "?v=1"}
NoHttp ==
    [method |-> "", id |-> 0, query |-> "", status |-> 0, body |-> NoUser,
     xcache |-> "", del |-> "none", dropped |-> FALSE]

\* c.Request.URL.RequestURI(): the path and the query string, without the method
RequestURI(c) == <<"/api/v1/users/", c.id, c.query>>

\* middleware.GetCacheKey
GetCacheKeyWithMethod(c) == <<"cache:", c.method, RequestURI(c)>>
GetCacheKey(c) == <<"cache:", RequestURI(c)>>

\* redis GET, SET and DEL on the keys of the cache
CacheGet(key) == {e \in cache : e.key = key}
CacheSet(key, val) == (cache \ CacheGet(key)) \cup {[key |-> key, val |-> val]}
CacheDel(key) == cache \ CacheGet(key)

Calls == {"CreateUser", "CreateUserWithTransaction", "UpdateUser", "DeleteUser",
          "GetUserByID"}

InitServer ==
    /\ users = {}
    /\ nextID = 1
    /\ pc = [p \in Procs |-> "idle"]
    /\ op = [p \in Procs |-> ""]
    /\ req = [p \in Procs |-> NoReq]
    /\ cur = [p \in Procs |-> NoUser]
    /\ ctx = [p \in Procs |-> BackgroundCtx]
    /\ txOpen = [p \in Procs |-> FALSE]
    /\ frames = [p \in Procs |-> <<>>]
    /\ flog = [p \in Procs |-> <<>>]
    /\ lastCall = [p \in Procs |-> NoCall]
    /\ hist = [p \in Procs |-> HistInit]
    /\ result = [p \in Procs |-> NoResult]
    /\ ga = [p \in Procs |-> NoList]
    /\ cache = {}
    /\ http = [p \in Procs |-> NoHttp]
    /\ wk = NoWorker
    /\ pubs = NoPublishers

InitStore == InitServer /\ listReq = NoListReq

\* one goroutine serving the usecase methods one after the other
Init ==
    /\ InitStore
    /\ menu = [p \in Procs |-> IF p = "p1" THEN Calls ELSE {}]

\* one goroutine running units of work through WithTransaction
InitTx ==
    /\ InitStore
    /\ menu = [p \in Procs |-> IF p = "p1" THEN {"UnitOfWork"} ELSE {}]

(* ---------- repository (internal/repository/postgres) ---------- *)
\* every repository method runs its statement on getExecutor(ctx)
RepoCall(p, name, c) ==
    lastCall' = [lastCall EXCEPT ![p] =
                    [op |-> name, tx |-> c.tx, exec |-> getExecutor(c)]]

\* what is kept of a statement fn issued: the error it returned, and the row
\* it wrote when there was none
LogEntry(o, err, e) ==
    [op |-> IF err = Nil THEN o ELSE [o EXCEPT !.row = NoUser], err |-> err, exec |-> e]

\* a writing statement o issued with context c, which returned err
StoreWrite(p, c, o, err) ==
    LET e == getExecutor(c) IN
    /\ flog' = IF c.tx
               THEN [flog EXCEPT ![p] = Append(@, LogEntry(o, err, e))]
               ELSE flog
    /\ users' = IF err = Nil /\ e = "pool" THEN ApplyOp(users, o) ELSE users

CreateErr == Wrap("failed to create user", ErrStore)

\* userRepository.Create: error, or the row with the id the store assigned
Create(p, c, email, name, ok) ==
    LET row == [id |-> nextID, email |-> email, name |-> name] IN
    /\ RepoCall(p, "Create", c)
    /\ StoreWrite(p, c, InsertOp(row), IF ok THEN Nil ELSE CreateErr)
    /\ nextID' = IF ok THEN nextID + 1 ELSE nextID

\* the outcomes of a single-row lookup that matched rows: a store error, not
\* found when there is no row, else the first row the store hands over
LookupZeroUser(rows, ok) ==
    IF ~ok THEN {[user |-> NoUser, err |-> Wrap("failed to get user", ErrStore)]}
    ELSE IF rows = {} THEN {[user |-> NoUser, err |-> Nil]}
    ELSE {[user |-> r, err |-> Nil] : r \in rows}
Lookup(rows, ok) ==
    IF ~ok THEN {[user |-> NoUser, err |-> Wrap("failed to get user", ErrStore)]}
    ELSE IF rows = {} THEN {[user |-> NoUser, err |-> ErrUserNotFound]}
    ELSE {[user |-> r, err |-> Nil] : r \in rows}

\* userRepository.GetByID / GetByEmail
GetByID(p, c, id, ok) ==
    Lookup({r \in Visible(p, getExecutor(c)) : r.id = id}, ok)

GetByEmail(p, c, email, ok) ==
    Lookup({r \in Visible(p, getExecutor(c)) : r.email = email}, ok)

\* userRepository.Update / Delete: the error returned for statement o
WriteErrAnyRows(p, c, o, ok, msg) ==
    IF ~ok THEN Wrap(msg, ErrStore) ELSE Nil
WriteErr(p, c, o, ok, msg) ==
    IF ~ok THEN Wrap(msg, ErrStore)
    ELSE IF Affected(Visible(p, getExecutor(c)), o) = 0 THEN ErrUserNotFound
    ELSE Nil

Update(p, c, row, ok) ==
    /\ RepoCall(p, "Update", c)
    /\ StoreWrite(p, c, UpdateOp(row),
                  WriteErr(p, c, UpdateOp(row), ok, "failed to update user"))

Delete(p, c, id, ok) ==
    /\ RepoCall(p, "Delete", c)
    /\ StoreWrite(p, c, DeleteOp(id),
                  WriteErr(p, c, DeleteOp(id), ok, "failed to delete user"))

\* userRepository.GetAll / Count (no filter): rows, or an error
GetAll(p, c, ok) ==
    IF ~ok THEN [rows |-> {}, err |-> Wrap("failed to get users", ErrStore)]
    ELSE [rows |-> Visible(p, getExecutor(c)), err |-> Nil]

Count(p, c, ok) ==
    IF ~ok THEN [count |-> 0, err |-> Wrap("failed to count users", ErrStore)]
    ELSE [count |-> Cardinality(Visible(p, getExecutor(c))), err |-> Nil]

\* what an email lookup told the usecase, which drops the error of the lookup
LookupAnswer(got, ok) ==
    IF ~ok THEN "error" ELSE IF got.user # NoUser THEN "found" ELSE "absent"

\* a statement on row id can run now (no other transaction holds the row)
CanWrite(p, id, ok) == ok => ~LockedByOther(p, id)

(* ---------- returning to the caller ---------- *)
Return(p, status, err, user) ==
    /\ pc' = [pc EXCEPT ![p] = "done"]
    /\ result' = [result EXCEPT ![p] = [status |-> status, err |-> err, user |-> user]]

\* the handler has answered; the goroutine is free again
Respond(p) ==
    /\ pc[p] = "done"
    /\ pc' = [pc EXCEPT ![p] = "idle"]
    /\ op' = [op EXCEPT ![p] = ""]
    /\ req' = [req EXCEPT ![p] = NoReq]
    /\ cur' = [cur EXCEPT ![p] = NoUser]
    /\ flog' = [flog EXCEPT ![p] = <<>>]
    /\ lastCall' = [lastCall EXCEPT ![p] = NoCall]
    /\ hist' = [hist EXCEPT ![p] = HistInit]
    /\ result' = [result EXCEPT ![p] = NoResult]
    /\ ga' = [ga EXCEPT ![p] = NoList]
    /\ UNCHANGED <<users, nextID, ctx, txOpen, frames, menu, web>>

Start(p, name, r) ==
    /\ pc[p] = "idle"
    /\ name \in menu[p]
    /\ op' = [op EXCEPT ![p] = name]
    /\ req' = [req EXCEPT ![p] = r]
    /\ UNCHANGED <<users, nextID, cur, ctx, txOpen, frames, flog, lastCall, hist, result, menu, rest>>

(* ---------- userUsecase.CreateUser ---------- *)
StartCreateUser(p) ==
    \E r \in CreateRequests :
        /\ Start(p, "CreateUser", r)
        /\ pc' = [pc EXCEPT ![p] = "cu_lookup"]

\* GetByEmail (its error is dropped), then the password hash
CreateUser_GetByEmail(p) ==
    /\ pc[p] = "cu_lookup" /\ op[p] = "CreateUser"
    /\ \E ok \in BOOLEAN : \E got \in GetByEmail(p, ctx[p], req[p].email, ok) :
        /\ RepoCall(p, "GetByEmail", ctx[p])
        /\ IF got.user # NoUser
           THEN Return(p, "err", ErrEmailExists, NoUser)
           ELSE IF HashFails(req[p].password)
           THEN Return(p, "err", <<"failed to hash password">>, NoUser)
           ELSE /\ pc' = [pc EXCEPT ![p] = "cu_insert"]
                /\ UNCHANGED result
        /\ hist' = [hist EXCEPT ![p].lookup = LookupAnswer(got, ok)]
        /\ req' = [req EXCEPT ![p].password = ""]
    /\ UNCHANGED <<users, nextID, op, cur, ctx, txOpen, frames, flog, menu, rest>>

CreateUser_Create(p) ==
    /\ pc[p] = "cu_insert" /\ op[p] = "CreateUser"
    /\ \E ok \in BOOLEAN :
        LET err == IF ok THEN Nil ELSE CreateErr IN
        /\ ok => nextID <= MaxID
        /\ Create(p, ctx[p], req[p].email, req[p].name, ok)
        /\ hist' = [hist EXCEPT ![p].written = ok, ![p].writeErr = err]
        /\ IF CreateUser_AfterCreate(err) = "return-error"
           THEN /\ Return(p, "err", err, NoUser)
                /\ UNCHANGED cur
           ELSE /\ pc' = [pc EXCEPT ![p] = "cu_publish"]
                /\ cur' = [cur EXCEPT ![p] =
                              [id |-> nextID, email |-> req[p].email, name |-> req[p].name]]
                /\ UNCHANGED result
    /\ UNCHANGED <<op, req, ctx, txOpen, frames, menu, rest>>

(* ---------- best-effort dispatch after the write ---------- *)
\* pubsubClient.Publish: blocks until the broker answers with an id or an error
Publish(p, ok) ==
    /\ hist' = [hist EXCEPT ![p].pub = IF ok THEN "ok" ELSE "fail",
                            ![p].dispatchInTx = @ \/ txOpen[p]]
    /\ pc' = [pc EXCEPT ![p] = "cu_enqueue"]
    /\ UNCHANGED <<users, nextID, op, req, cur, ctx, txOpen, frames, flog,
                   lastCall, result, menu, rest>>

\* asynqClient.Enqueue of the telegram task, then the usecase returns
Enqueue(p, ok) ==
    LET pubErr == IF hist[p].pub = "fail" THEN ErrPublish ELSE Nil
        enqErr == IF ok THEN Nil ELSE ErrEnqueue
        task == NewTelegramMessageTask(cur[p].email)
        ret == AfterDispatch(pubErr, enqErr)
    IN
    /\ hist' = [hist EXCEPT ![p].enq = IF task.err # Nil THEN "none"
                                       ELSE IF ok THEN "ok" ELSE "fail",
                            ![p].dispatchInTx = @ \/ txOpen[p]]
    /\ IF ret = Nil THEN Return(p, "ok", Nil, cur[p])
                    ELSE Return(p, "err", ret, NoUser)
    /\ UNCHANGED <<users, nextID, op, req, cur, ctx, txOpen, frames, flog,
                   lastCall, menu, rest>>

CreateUser_Publish(p) ==
    /\ pc[p] = "cu_publish" /\ op[p] = "CreateUser"
    /\ \E ok \in BOOLEAN : Publish(p, ok)

CreateUser_Enqueue(p) ==
    /\ pc[p] = "cu_enqueue" /\ op[p] = "CreateUser"
    /\ \E ok \in BOOLEAN : Enqueue(p, ok)

(* ---------- userUsecase.GetUserByID ---------- *)
StartGetUserByID(p) ==
    \E i \in 1..MaxID :
        /\ Start(p, "GetUserByID", [NoReq EXCEPT !.id = i])
        /\ pc' = [pc EXCEPT ![p] = "gu_get"]

GetUserByID(p) ==
    /\ pc[p] = "gu_get"
    /\ \E ok \in BOOLEAN : \E got \in GetByID(p, ctx[p], req[p].id, ok) :
        /\ RepoCall(p, "GetByID", ctx[p])
        /\ IF got.err # Nil THEN Return(p, "err", got.err, NoUser)
                            ELSE Return(p, "ok", Nil, got.user)
    /\ UNCHANGED <<users, nextID, op, req, cur, ctx, txOpen, frames, flog,
                   hist, menu, rest>>

(* ---------- userUsecase.UpdateUser ---------- *)
StartUpdateUser(p) ==
    \E r \in UpdateRequests :
        /\ Start(p, "UpdateUser", r)
        /\ pc' = [pc EXCEPT ![p] = "uu_get"]

\* the fields of the request that are applied to the loaded user
ApplyNameAlways(u, r) == [u EXCEPT !.name = r.name]
ApplyName(u, r) == IF r.name # "" THEN [u EXCEPT !.name = r.name] ELSE u
ApplyEmail(u, r) == [u EXCEPT !.email = r.email]
EmailChanges(u, r) == r.email # "" /\ r.email # u.email

UpdateUser_GetByID(p) ==
    /\ pc[p] = "uu_get"
    /\ \E ok \in BOOLEAN : \E got \in GetByID(p, ctx[p], req[p].id, ok) :
        /\ RepoCall(p, "GetByID", ctx[p])
        /\ IF got.err # Nil
           THEN /\ Return(p, "err", got.err, NoUser)
                /\ UNCHANGED cur
           ELSE /\ UNCHANGED result
                /\ IF EmailChanges(got.user, req[p])
                   THEN /\ pc' = [pc EXCEPT ![p] = "uu_lookup"]
                        /\ cur' = [cur EXCEPT ![p] = got.user]
                   ELSE /\ pc' = [pc EXCEPT ![p] = "uu_update"]
                        /\ cur' = [cur EXCEPT ![p] = ApplyName(got.user, req[p])]
    /\ UNCHANGED <<users, nextID, op, req, ctx, txOpen, frames, flog,
                   hist, menu, rest>>

UpdateUser_GetByEmail(p) ==
    /\ pc[p] = "uu_lookup"
    /\ \E ok \in BOOLEAN : \E got \in GetByEmail(p, ctx[p], req[p].email, ok) :
        /\ RepoCall(p, "GetByEmail", ctx[p])
        /\ IF got.user # NoUser
           THEN /\ Return(p, "err", ErrEmailExists, NoUser)
                /\ UNCHANGED cur
           ELSE /\ pc' = [pc EXCEPT ![p] = "uu_update"]
                /\ cur' = [cur EXCEPT ![p] = ApplyName(ApplyEmail(@, req[p]), req[p])]
                /\ UNCHANGED result
        /\ hist' = [hist EXCEPT ![p].lookup = LookupAnswer(got, ok)]
    /\ UNCHANGED <<users, nextID, op, req, ctx, txOpen, frames, flog, menu, rest>>

UpdateUser_Update(p) ==
    /\ pc[p] = "uu_update"
    /\ \E ok \in BOOLEAN :
        LET err == WriteErr(p, ctx[p], UpdateOp(cur[p]), ok, "failed to update user") IN
        /\ CanWrite(p, cur[p].id, ok)
        /\ Update(p, ctx[p], cur[p], ok)
        /\ hist' = [hist EXCEPT ![p].written = (err = Nil), ![p].writeErr = err]
        /\ IF UpdateUser_AfterUpdate(err) = "return-error"
           THEN Return(p, "err", err, NoUser)
           ELSE /\ pc' = [pc EXCEPT ![p] = "uu_enqueue"]
                /\ UNCHANGED result
    /\ UNCHANGED <<nextID, op, req, cur, ctx, txOpen, frames, menu, rest>>

UpdateUser_Enqueue(p) ==
    /\ pc[p] = "uu_enqueue"
    /\ \E ok \in BOOLEAN : Enqueue(p, ok)

(* ---------- userUsecase.DeleteUser ---------- *)
StartDeleteUser(p) ==
    \E i \in 1..MaxID :
        /\ Start(p, "DeleteUser", [NoReq EXCEPT !.id = i])
        /\ pc' = [pc EXCEPT ![p] = "du_delete"]

DeleteUser(p) ==
    /\ pc[p] = "du_delete"
    /\ \E ok \in BOOLEAN :
        LET err == WriteErr(p, ctx[p], DeleteOp(req[p].id), ok, "failed to delete user") IN
        /\ CanWrite(p, req[p].id, ok)
        /\ Delete(p, ctx[p], req[p].id, ok)
        /\ hist' = [hist EXCEPT ![p].written = (err = Nil), ![p].writeErr = err]
        /\ IF err # Nil THEN Return(p, "err", err, NoUser)
                        ELSE Return(p, "ok", Nil, NoUser)
    /\ UNCHANGED <<nextID, op, req, cur, ctx, txOpen, frames, menu, rest>>

(* ---------- userUsecase.GetAllUsers ---------- *)
\* errgroup.WithContext, and the two g.Go calls: both goroutines are started
StartGetAllUsers(p) ==
    /\ pc[p] = "idle"
    /\ "GetAllUsers" \in menu[p]
    /\ op' = [op EXCEPT ![p] = "GetAllUsers"]
    /\ pc' = [pc EXCEPT ![p] = "ga_wait"]
    /\ ga' = [ga EXCEPT ![p] = [NoList EXCEPT !.list = "run", !.count = "run"]]
    /\ UNCHANGED <<users, nextID, req, cur, ctx, txOpen, frames, flog, lastCall,
                   hist, result, menu, web>>

\* a query on the context of the errgroup fails once that context is cancelled
QueryOutcomes(p) == IF ga[p].cancelled THEN {FALSE} ELSE BOOLEAN

\* first goroutine, "users, err = u.userRepo.GetAll(...)": the call and the
\* assignment to the variables of the enclosing function
GetAllUsers_GetAll(p) ==
    /\ pc[p] = "ga_wait" /\ ga[p].list = "run"
    /\ \E ok \in QueryOutcomes(p) :
        LET got == GetAll(p, ctx[p], ok) IN
        ga' = [ga EXCEPT ![p].rows = got.rows, ![p].err = got.err,
                         ![p].listErr = got.err, ![p].list = "ret"]
    /\ RepoCall(p, "GetAll", ctx[p])
    /\ UNCHANGED <<users, nextID, pc, op, req, cur, ctx, txOpen, frames, flog,
                   hist, result, menu, web>>

\* second goroutine, "total, err = u.userRepo.Count(...)"
GetAllUsers_Count(p) ==
    /\ pc[p] = "ga_wait" /\ ga[p].count = "run"
    /\ \E ok \in QueryOutcomes(p) :
        LET got == Count(p, ctx[p], ok) IN
        ga' = [ga EXCEPT ![p].total = got.count, ![p].err = got.err,
                         ![p].countErr = got.err, ![p].count = "ret"]
    /\ RepoCall(p, "Count", ctx[p])
    /\ UNCHANGED <<users, nextID, pc, op, req, cur, ctx, txOpen, frames, flog,
                   hist, result, menu, web>>

\* "return err" of a goroutine: the value it hands to the errgroup is the value
\* the shared variable err holds at that time
GoReturnValue(p, own) == ga[p].err

\* the errgroup keeps the first non-nil error and cancels its context
GroupDone(g, e) ==
    IF e # Nil /\ g.first = Nil THEN [g EXCEPT !.first = e, !.cancelled = TRUE] ELSE g

GetAllUsers_GetAllReturn(p) ==
    /\ pc[p] = "ga_wait" /\ ga[p].list = "ret"
    /\ ga' = [ga EXCEPT ![p] =
                 GroupDone([@ EXCEPT !.list = "end"], GoReturnValue(p, ga[p].listErr))]
    /\ UNCHANGED <<users, nextID, pc, op, req, cur, ctx, txOpen, frames, flog,
                   lastCall, hist, result, menu, web>>

GetAllUsers_CountReturn(p) ==
    /\ pc[p] = "ga_wait" /\ ga[p].count = "ret"
    /\ ga' = [ga EXCEPT ![p] =
                 GroupDone([@ EXCEPT !.count = "end"], GoReturnValue(p, ga[p].countErr))]
    /\ UNCHANGED <<users, nextID, pc, op, req, cur, ctx, txOpen, frames, flog,
                   lastCall, hist, result, menu, web>>

\* g.Wait() returns when both goroutines have ended; then the error of the
\* group, or the responses and the total
GetAllUsers_Wait(p) ==
    /\ pc[p] = "ga_wait" /\ ga[p].list = "end" /\ ga[p].count = "end"
    /\ IF ga[p].first # Nil
       THEN /\ Return(p, "err", ga[p].first, NoUser)
            /\ UNCHANGED ga
       ELSE /\ Return(p, "ok", Nil, NoUser)
            /\ ga' = [ga EXCEPT ![p].out = [rows |-> ga[p].rows, total |-> ga[p].total]]
    /\ UNCHANGED <<users, nextID, op, req, cur, ctx, txOpen, frames, flog,
                   lastCall, hist, menu, web>>

(* ---------- HTTP delivery (handler, cache middleware, router) ---------- *)
\* the status the handlers answer with after the usecase has returned
CreateUserStatus(err) == IF err # Nil THEN 500 ELSE 201
GetUserByIDStatus(err) == IF err # Nil THEN 404 ELSE 200
UpdateUserStatus(err) == IF err # Nil THEN 500 ELSE 200
DeleteUserStatus(err) == IF err # Nil THEN 500 ELSE 200

\* the router hands a request to its handler chain
HttpBegin(p, c) ==
    /\ pc[p] = "idle"
    /\ c.method \in menu[p]
    /\ UNCHANGED <<users, nextID, cur, ctx, txOpen, frames, flog, lastCall, hist,
                   result, menu, lists, cache>>

\* the handler answers without calling the usecase
HttpAnswer(p, c, status) ==
    /\ http' = [http EXCEPT ![p] = [c EXCEPT !.status = status]]
    /\ pc' = [pc EXCEPT ![p] = "sent"]
    /\ UNCHANGED <<op, req>>

\* the handler calls the usecase
HttpCall(p, c, name, r, at) ==
    /\ http' = [http EXCEPT ![p] = c]
    /\ op' = [op EXCEPT ![p] = name]
    /\ req' = [req EXCEPT ![p] = r]
    /\ pc' = [pc EXCEPT ![p] = at]

\* the usecase has returned, the handler (and the middleware around it) answers
HttpEnd(p, method) ==
    /\ pc[p] = "done" /\ http[p].method = method
    /\ pc' = [pc EXCEPT ![p] = "sent"]
    /\ UNCHANGED <<users, nextID, op, req, cur, ctx, txOpen, frames, flog,
                   lastCall, hist, result, menu, lists>>

\* POST /api/v1/users
Http_CreateUser(p) ==
    LET c == [NoHttp EXCEPT !.method = "POST"] IN
    /\ HttpBegin(p, c)
    /\ \/ HttpAnswer(p, c, 400)
       \/ \E r \in CreateRequests : HttpCall(p, c, "CreateUser", r, "cu_lookup")

Http_CreateUserEnd(p) ==
    /\ HttpEnd(p, "POST")
    /\ http' = [http EXCEPT ![p].status = CreateUserStatus(result[p].err),
                            ![p].body = result[p].user]
    /\ UNCHANGED cache

\* GET /api/v1/users/:id: CacheMiddleware first; a hit answers from the cache
\* and aborts the chain, a miss (or a failed redis GET) runs the handler
Http_GetUserByID(p) ==
    \E i \in IdParams, q \in Queries, redisOk \in BOOLEAN :
        LET c == [NoHttp EXCEPT !.method = "GET", !.id = i, !.query = q]
            val == CacheGet(GetCacheKey(c))
        IN
        /\ HttpBegin(p, c)
        /\ IF redisOk /\ val # {}
           THEN \E e \in val :
                    HttpAnswer(p, [c EXCEPT !.body = e.val, !.xcache = "HIT"], 200)
           ELSE IF i = BadID
           THEN HttpAnswer(p, c, 400)
           ELSE HttpCall(p, c, "GetUserByID",
                         [NoReq EXCEPT !.id = i], "gu_get")

\* the handler's answer, then the middleware stores a 200 body under the key
Http_GetUserByIDEnd(p) ==
    LET status == GetUserByIDStatus(result[p].err) IN
    /\ HttpEnd(p, "GET")
    /\ http' = [http EXCEPT ![p].status = status, ![p].body = result[p].user]
    /\ IF status = 200
       THEN \E setOk \in BOOLEAN :
                cache' = IF setOk THEN CacheSet(GetCacheKey(http[p]), result[p].user)
                                  ELSE cache
       ELSE UNCHANGED cache

\* PUT /api/v1/users/:id; the bodies the clients send change the email or nothing
UpdateBodies == {r \in UpdateRequests : r.id = 1 /\ r.name = ""}

Http_UpdateUser(p) ==
    \E i \in IdParams, q \in Queries :
        LET c == [NoHttp EXCEPT !.method = "PUT", !.id = i, !.query = q] IN
        /\ HttpBegin(p, c)
        /\ \/ HttpAnswer(p, c, 400)
           \/ /\ i # BadID
              /\ \E r \in UpdateBodies :
                    HttpCall(p, c, "UpdateUser", [r EXCEPT !.id = i], "uu_get")

\* after a successful write the handler deletes the key of its own request;
\* a failed delete is logged only
InvalidateCache(p) ==
    \E delOk \in BOOLEAN :
        /\ cache' = IF delOk THEN CacheDel(GetCacheKey(http[p])) ELSE cache
        /\ http' = [http EXCEPT ![p].status = 200, ![p].body = result[p].user,
                                ![p].del = IF delOk THEN "ok" ELSE "fail",
                                ![p].dropped = delOk /\ cache' # cache]

Http_UpdateUserEnd(p) ==
    /\ HttpEnd(p, "PUT")
    /\ IF UpdateUserStatus(result[p].err) # 200
       THEN /\ http' = [http EXCEPT ![p].status = UpdateUserStatus(result[p].err)]
            /\ UNCHANGED cache
       ELSE InvalidateCache(p)

\* DELETE /api/v1/users/:id
Http_DeleteUser(p) ==
    \E i \in IdParams, q \in Queries :
        LET c == [NoHttp EXCEPT !.method = "DELETE", !.id = i, !.query = q] IN
        /\ HttpBegin(p, c)
        /\ IF i = BadID
           THEN HttpAnswer(p, c, 400)
           ELSE HttpCall(p, c, "DeleteUser", [NoReq EXCEPT !.id = i], "du_delete")

Http_DeleteUserEnd(p) ==
    /\ HttpEnd(p, "DELETE")
    /\ IF DeleteUserStatus(result[p].err) # 200
       THEN /\ http' = [http EXCEPT ![p].status = DeleteUserStatus(result[p].err)]
            /\ UNCHANGED cache
       ELSE InvalidateCache(p)

\* the response is written; the goroutine is free again
Http_Done(p) ==
    /\ pc[p] = "sent"
    /\ pc' = [pc EXCEPT ![p] = "idle"]
    /\ op' = [op EXCEPT ![p] = ""]
    /\ req' = [req EXCEPT ![p] = NoReq]
    /\ cur' = [cur EXCEPT ![p] = NoUser]
    /\ flog' = [flog EXCEPT ![p] = <<>>]
    /\ lastCall' = [lastCall EXCEPT ![p] = NoCall]
    /\ hist' = [hist EXCEPT ![p] = HistInit]
    /\ result' = [result EXCEPT ![p] = NoResult]
    /\ http' = [http EXCEPT ![p] = NoHttp]
    /\ UNCHANGED <<users, nextID, ctx, txOpen, frames, menu, lists, cache>>

\* a cache entry reaches its time to live (one minute) and is dropped by redis
CacheExpire ==
    /\ \E e \in cache : cache' = cache \ {e}
    /\ UNCHANGED <<users, nextID, pc, op, req, cur, ctx, txOpen, frames, flog,
                   lastCall, hist, result, menu, lists, http>>

(* ---------- UserHandler.GetAllUsers ---------- *)
\* utils.ParseSorts on the sort parameter; an error is answered with 400
List_ParseSorts ==
    LET r == ParseSorts(listReq.sort, getAllUsersAllowedSorts, getAllUsersDefaultSorts) IN
    /\ listReq.stage = "sorts"
    /\ listReq' = [listReq EXCEPT !.sorts = r.sorts, !.sortErr = r.err,
                                  !.status = IF r.err # Nil THEN 400 ELSE 0,
                                  !.stage = IF r.err # Nil THEN "answered" ELSE "filters"]
    /\ UNCHANGED <<users, nextID, pc, op, req, cur, ctx, txOpen, frames, flog,
                   lastCall, hist, result, menu, ga, cache, http, aside>>

\* utils.ParseFilters on the parameters of the query; an error is answered with 400
List_ParseFilters ==
    LET r == ParseFilters(listReq.params, getAllUsersAllowedFilters) IN
    /\ listReq.stage = "filters"
    /\ listReq' = [listReq EXCEPT !.filters = r.filters, !.filterErr = r.err,
                                  !.status = IF r.err # Nil THEN 400 ELSE 0,
                                  !.stage = IF r.err # Nil THEN "answered" ELSE "usecase"]
    /\ UNCHANGED <<users, nextID, pc, op, req, cur, ctx, txOpen, frames, flog,
                   lastCall, hist, result, menu, ga, cache, http, aside>>

\* userUsecase.GetAllUsers with the pagination, the filters and the sorts; the
\* repository builds ORDER BY from the sorts
List_GetAllUsers ==
    /\ listReq.stage = "usecase"
    /\ \E ok \in BOOLEAN :
        listReq' = [listReq EXCEPT !.called = TRUE, !.orderBy = SetOrderBy(listReq.sorts),
                                   !.status = IF ok THEN 200 ELSE 500,
                                   !.stage = "answered"]
    /\ UNCHANGED <<users, nextID, pc, op, req, cur, ctx, txOpen, frames, flog,
                   lastCall, hist, result, menu, ga, cache, http, aside>>

(* ---------- worker process (cmd/worker, internal/worker, pkg/pubsub) ---------- *)
\* the state of the API process, which the worker process never touches
api == <<users, nextID, pc, op, req, cur, ctx, txOpen, frames, flog, lastCall, hist,
         result, menu, ga, cache, http, listReq, pubs>>

\* the process runs: it has not died of a panic and main has not returned
Alive == ~wk.crashed /\ wk.main # "exited"

ErrHandler == <<"handler error">>
ErrSend == <<"telegram: send failed">>
ErrSkipRetry == <<"skip retry">>

\* main: pubsubWorker calls Worker.Start, which runs "go sub(ctx)" for every
\* subscription; then "go srv.Run(mux)" and main waits for the signal
Main_Start ==
    /\ Alive /\ wk.main = "init"
    /\ wk' = [wk EXCEPT !.main = "waiting", !.loop = [s \in Subs |-> "started"]]
    /\ UNCHANGED api

\* signal.NotifyContext: SIGINT or SIGTERM cancels the context shared by main
\* and the subscription goroutines
Signal ==
    /\ Alive /\ wk.ctx = "live"
    /\ wk' = [wk EXCEPT !.ctx = "cancelled"]
    /\ UNCHANGED api

\* SubscribeUserCreated's closure: the deferred recover is installed, and
\* Client.Subscribe calls s.Receive(ctx, callback), which blocks
Sub_Subscribe(s) ==
    /\ Alive /\ wk.loop[s] = "started"
    /\ wk' = [wk EXCEPT !.loop[s] = "receiving"]
    /\ UNCHANGED api

\* Receive pulls a message and runs the callback for it in a goroutine of its
\* own; it pulls nothing once its context is cancelled
Sub_Deliver(s, m) ==
    /\ Alive /\ wk.loop[s] = "receiving" /\ wk.ctx = "live"
    /\ wk.msg[s][m].st = "queued"
    /\ wk' = [wk EXCEPT !.msg[s][m].st = "handling"]
    /\ UNCHANGED api

\* the callback after the handler returned err: Nack and return, or Ack
DispositionBoth(d, err) ==
    IF err # Nil THEN [d EXCEPT !.nacks = @ + 1, !.acks = @ + 1]
                 ELSE [d EXCEPT !.acks = @ + 1]
Disposition(d, err) ==
    IF err # Nil THEN [d EXCEPT !.nacks = @ + 1]
                 ELSE [d EXCEPT !.acks = @ + 1]

Sub_HandlerReturns(s, m) ==
    /\ Alive /\ wk.msg[s][m].st = "handling"
    /\ \E err \in {Nil, ErrHandler} :
        wk' = [wk EXCEPT !.msg[s][m] =
                  Disposition([@ EXCEPT !.st = "returned",
                                        !.ret = IF err = Nil THEN "nil" ELSE "err"], err)]
    /\ UNCHANGED api

\* a deferred recover() stops a panic only on the goroutine that panics
Recovers(deferredOn, panicsOn) == deferredOn = panicsOn

\* the handler panics. It runs on the goroutine Receive started for the
\* message; the recover of SubscribeUserCreated is deferred on the goroutine
\* that Worker.Start started. An unrecovered panic ends the process
Sub_HandlerPanics(s, m) ==
    /\ Alive /\ wk.msg[s][m].st = "handling"
    /\ IF Recovers(<<"sub", s>>, <<"receive", s, m>>)
       THEN wk' = [wk EXCEPT !.msg[s][m].st = "panicked", !.recovered = TRUE,
                             !.loop[s] = "returned"]
       ELSE wk' = [wk EXCEPT !.msg[s][m].st = "panicked", !.crashed = TRUE]
    /\ UNCHANGED api

\* Receive returns once its context is cancelled and the callbacks it started
\* have returned; Subscribe and the goroutine of the subscription return
Sub_ReceiveReturns(s) ==
    /\ Alive /\ wk.loop[s] = "receiving" /\ wk.ctx = "cancelled"
    /\ \A m \in Msgs : wk.msg[s][m].st # "handling"
    /\ wk' = [wk EXCEPT !.loop[s] = "returned"]
    /\ UNCHANGED api

\* main after <-ctx.Done(): srv.Shutdown(), which waits for the running tasks
Main_Shutdown ==
    /\ Alive /\ wk.main = "waiting" /\ wk.ctx = "cancelled"
    /\ \A t \in Tasks : wk.task[t].st # "sending"
    /\ wk' = [wk EXCEPT !.main = "shutdown"]
    /\ UNCHANGED api

\* pubsubClient.Close()
Main_Close ==
    /\ Alive /\ wk.main = "shutdown"
    /\ wk' = [wk EXCEPT !.main = "closed"]
    /\ UNCHANGED api

\* main returns: the process ends with every goroutine still running
Main_Exit ==
    /\ Alive /\ wk.main = "closed"
    /\ wk' = [wk EXCEPT !.main = "exited"]
    /\ UNCHANGED api

(* ---------- TelegramTaskHandler.HandleTelegramMessageTask ---------- *)
\* fmt.Errorf("json.Unmarshal failed: %v: %w", err, asynq.SkipRetry)
TelegramUnmarshalErrRetryable == <<"json.Unmarshal failed: invalid character">>
TelegramUnmarshalErr == Wrap("json.Unmarshal failed: invalid character", ErrSkipRetry)
\* fmt.Errorf("failed to send telegram message: %w", err)
TelegramSendErr == Wrap("failed to send telegram message", ErrSend)
\* errors.Is(err, asynq.SkipRetry)
IsSkipRetry(err) == \E i \in 1..Len(err) : <<err[i]>> = ErrSkipRetry

\* a task of type telegram:message arrives in the queue; the payload is the
\* JSON of a TelegramMessagePayload, or bytes that are not
Task_Enqueue(t) ==
    /\ Alive /\ wk.task[t].st = "none"
    /\ \E payload \in {"json", "garbage"} :
        wk' = [wk EXCEPT !.task[t] = [NoTask EXCEPT !.st = "queued", !.payload = payload]]
    /\ UNCHANGED api

\* the server hands the task to the handler: json.Unmarshal of the payload
Task_Unmarshal(t) ==
    /\ Alive /\ wk.main = "waiting" /\ wk.task[t].st = "queued"
    /\ wk' = IF wk.task[t].payload # "json"
             THEN [wk EXCEPT !.task[t].ret = TelegramUnmarshalErr, !.task[t].st = "returned"]
             ELSE [wk EXCEPT !.task[t].st = "sending"]
    /\ UNCHANGED api

\* telegramService.SendMessage, and the return of the handler
Task_Send(t) ==
    /\ Alive /\ wk.task[t].st = "sending"
    /\ \E ok \in BOOLEAN :
        wk' = [wk EXCEPT !.task[t].sends = @ + 1,
                         !.task[t].sent = IF ok THEN "ok" ELSE "failed",
                         !.task[t].ret = IF ok THEN Nil ELSE TelegramSendErr,
                         !.task[t].st = "returned"]
    /\ UNCHANGED api

\* asynq after the handler returned: done on nil, archived on an error that is
\* SkipRetry or when the retries are used up, else queued again
Task_Settle(t) ==
    /\ Alive /\ wk.task[t].st = "returned"
    /\ wk' = IF wk.task[t].ret = Nil
             THEN [wk EXCEPT !.task[t].st = "done"]
             ELSE IF IsSkipRetry(wk.task[t].ret) \/ wk.task[t].sends > MaxRetry
             THEN [wk EXCEPT !.task[t].st = "archived"]
             ELSE [wk EXCEPT !.task[t].st = "queued", !.task[t].ret = <<"none">>,
                              !.task[t].sent = "none"]
    /\ UNCHANGED api

(* ---------- Client.publisher and Client.Close (pkg/pubsub) ---------- *)
\* everything but the publisher cache of the pubsub client
notPubs == <<users, nextID, pc, op, req, cur, ctx, txOpen, frames, flog, lastCall, hist,
             result, menu, ga, cache, http, listReq, wk>>

\* sync.Map.LoadOrStore(topicID, p): one atomic step
Store(map, t, p) == [map |-> [map EXCEPT ![t] = p], actual |-> p]
LoadOrStore(map, t, p) ==
    IF map[t] # 0 THEN [map |-> map, actual |-> map[t]]
                  ELSE [map |-> [map EXCEPT ![t] = p], actual |-> p]

\* publisher(topicID): c.publishers.Load, and the return of the cached handle
Pub_Load(p, t) ==
    /\ ~pubs.closed /\ pubs.call[p].at \in {"off", "done"} /\ pubs.call[p].n < MaxCalls
    /\ pubs' = IF pubs.map[t] # 0
               THEN [pubs EXCEPT !.call[p] = [at |-> "done", topic |-> t, mine |-> 0,
                                              got |-> pubs.map[t], n |-> @.n + 1],
                                 !.rets = @ \cup {<<t, pubs.map[t]>>}]
               ELSE [pubs EXCEPT !.call[p] = [at |-> "create", topic |-> t, mine |-> 0,
                                              got |-> 0, n |-> @.n + 1]]
    /\ UNCHANGED notPubs

\* p := c.client.Publisher(topicID): a new handle
Pub_Create(p) ==
    /\ pubs.call[p].at = "create"
    /\ LET h == Cardinality(pubs.created) + 1
       IN pubs' = [pubs EXCEPT !.created = @ \cup {[id |-> h, topic |-> pubs.call[p].topic]},
                               !.call[p].mine = h, !.call[p].at = "store"]
    /\ UNCHANGED notPubs

\* actual, _ := c.publishers.LoadOrStore(topicID, p); return actual
Pub_LoadOrStore(p) ==
    /\ pubs.call[p].at = "store"
    /\ LET r == LoadOrStore(pubs.map, pubs.call[p].topic, pubs.call[p].mine)
       IN pubs' = [pubs EXCEPT !.map = r.map,
                               !.call[p].got = r.actual, !.call[p].at = "done",
                               !.rets = @ \cup {<<pubs.call[p].topic, r.actual>>}]
    /\ UNCHANGED notPubs

\* Close: Range over the cache stops every handle in it. It is called once,
\* at shutdown, here when no call of publisher is under way
Client_Close ==
    /\ ~pubs.closed
    /\ \A p \in Procs : pubs.call[p].at \in {"off", "done"}
    /\ pubs' = [pubs EXCEPT !.closed = TRUE,
                            !.stops = [h \in Handles |->
                                IF \E t \in Topics : pubs.map[t] = h THEN @[h] + 1 ELSE @[h]]]
    /\ UNCHANGED notPubs

(* ---------- TransactionManager.WithTransaction ---------- *)
\* where fn starts, and where the caller of the outermost call goes on
FnEntry(p) == IF op[p] = "CreateUserWithTransaction" THEN "tfn_lookup" ELSE "fn"

\* the outermost WithTransaction returns ret to the usecase
ReturnFromWT(p, h, ret) ==
    LET h2 == [h EXCEPT !.wtReturned = TRUE, !.wtRet = ret] IN
    /\ hist' = [hist EXCEPT ![p] = h2]
    /\ IF op[p] = "CreateUserWithTransaction" /\ CUWT_AfterTransaction(ret) = "dispatch"
       THEN /\ pc' = [pc EXCEPT ![p] = "cu_publish"]
            /\ UNCHANGED result
       ELSE IF ret # Nil THEN Return(p, "err", ret, NoUser)
                         ELSE Return(p, "ok", Nil, NoUser)

\* lines 43-58: reuse the transaction of the context, or begin one
WithTransaction_Enter(p) ==
    /\ pc[p] = "wt_enter"
    /\ IF getTxFromContext(ctx[p])
       THEN /\ frames' = [frames EXCEPT ![p] =
                             Append(@, [owner |-> FALSE, base |-> Len(flog[p])])]
            /\ pc' = [pc EXCEPT ![p] = FnEntry(p)]
            /\ UNCHANGED <<ctx, txOpen, hist, result>>
       ELSE \E ok \in BOOLEAN :
              IF ok
              THEN /\ txOpen' = [txOpen EXCEPT ![p] = TRUE]
                   /\ ctx' = [ctx EXCEPT ![p] = WithValueTx(@)]
                   /\ frames' = [frames EXCEPT ![p] =
                                    Append(@, [owner |-> TRUE, base |-> Len(flog[p])])]
                   /\ hist' = [hist EXCEPT ![p].begins = @ + 1, ![p].before = users]
                   /\ pc' = [pc EXCEPT ![p] = FnEntry(p)]
                   /\ UNCHANGED result
              ELSE /\ ReturnFromWT(p, [hist[p] EXCEPT !.before = users],
                                   WTBeginReturn(ErrStore))
                   /\ UNCHANGED <<ctx, txOpen, frames>>
    /\ UNCHANGED <<users, nextID, op, req, cur, flog, lastCall, menu, rest>>

\* of the n statements fn has issued, those issued since the frame on top of
\* the stack was entered
FrameOps(p, n) == {i \in 1..n : i > frames[p][Len(frames[p])].base}

\* fn returns err after n statements: a nested call hands it to the enclosing
\* fn (line 48), the outermost call goes on to rollback or commit (lines 70-84)
FnReturns(p, h, err, n) ==
    LET top == frames[p][Len(frames[p])]
        failed == IF err # Nil THEN FrameOps(p, n) ELSE {}
    IN
    IF top.owner
    THEN /\ hist' = [hist EXCEPT ![p] =
                        [h EXCEPT !.fnReturned = TRUE, !.fnErr = err,
                                  !.failedOps = @ \cup failed]]
         /\ pc' = [pc EXCEPT ![p] =
                      IF WTOnFnResult(err) = "rollback" THEN "wt_rollback" ELSE "wt_commit"]
         /\ UNCHANGED frames
    ELSE /\ hist' = [hist EXCEPT ![p] = [h EXCEPT !.failedOps = @ \cup failed]]
         /\ frames' = [frames EXCEPT ![p] = SubSeq(@, 1, Len(@) - 1)]
         /\ pc' = [pc EXCEPT ![p] = "fn"]

\* lines 71-77: tx.Rollback(), then the error goes to the caller
WithTransaction_Rollback(p) ==
    /\ pc[p] = "wt_rollback"
    /\ \E ok \in BOOLEAN :
        LET rbErr == IF ok THEN Nil ELSE ErrRollback
            h == [hist[p] EXCEPT !.rollbacks = @ + 1, !.rbErr = rbErr]
        IN
        /\ users' = RollbackEffect(users, Pending(p))
        /\ ReturnFromWT(p, h, WTRollbackReturn(rbErr, hist[p].fnErr))
    /\ txOpen' = [txOpen EXCEPT ![p] = FALSE]
    /\ ctx' = [ctx EXCEPT ![p] = BackgroundCtx]
    /\ frames' = [frames EXCEPT ![p] = <<>>]
    /\ UNCHANGED <<nextID, op, req, cur, flog, lastCall, menu, rest>>

\* lines 79-84: tx.Commit()
WithTransaction_Commit(p) ==
    /\ pc[p] = "wt_commit"
    /\ \E ok \in BOOLEAN :
        LET cmErr == IF ok THEN Nil ELSE ErrStore
            h == [hist[p] EXCEPT !.commits = @ + 1, !.committed = ok,
                                 !.committedOps = IF ok THEN PendingIdx(p) ELSE {}]
        IN
        /\ users' = IF ok THEN CommitEffect(users, Pending(p)) ELSE users
        /\ ReturnFromWT(p, h, WTCommitReturn(cmErr))
    /\ txOpen' = [txOpen EXCEPT ![p] = FALSE]
    /\ ctx' = [ctx EXCEPT ![p] = BackgroundCtx]
    /\ frames' = [frames EXCEPT ![p] = <<>>]
    /\ UNCHANGED <<nextID, op, req, cur, flog, lastCall, menu, rest>>

\* lines 60-67: the deferred function of the outermost call recovers the panic
\* of fn, rolls back (the rollback error is dropped) and panics again
WithTransaction_Recover(p) ==
    /\ pc[p] = "wt_recover"
    /\ \E ok \in BOOLEAN :
        LET h == [hist[p] EXCEPT !.rollbacks = @ + 1] IN
        IF WTDeferred(hist[p].panicVal) = "rollback-and-repanic"
        THEN /\ hist' = [hist EXCEPT ![p] = [h EXCEPT !.repanicked = h.panicVal]]
             /\ pc' = [pc EXCEPT ![p] = "panicked"]
             /\ UNCHANGED result
        ELSE ReturnFromWT(p, hist[p], Nil)
    /\ users' = RollbackEffect(users, Pending(p))
    /\ txOpen' = [txOpen EXCEPT ![p] = FALSE]
    /\ ctx' = [ctx EXCEPT ![p] = BackgroundCtx]
    /\ frames' = [frames EXCEPT ![p] = <<>>]
    /\ UNCHANGED <<nextID, op, req, cur, flog, lastCall, menu, rest>>

\* middleware.Recovery: the panic ends as a 500 response
Recovery(p) ==
    /\ pc[p] = "panicked"
    /\ Return(p, "panic-500", <<hist[p].repanicked>>, NoUser)
    /\ UNCHANGED <<users, nextID, op, req, cur, ctx, txOpen, frames, flog,
                   lastCall, hist, menu, rest>>

(* ---------- userUsecase.CreateUserWithTransaction ---------- *)
StartCreateUserWithTransaction(p) ==
    \E r \in CreateRequests :
        /\ Start(p, "CreateUserWithTransaction", r)
        /\ pc' = [pc EXCEPT ![p] = "wt_enter"]

\* fn, lines 323-333: GetByEmail on txCtx, then the password hash
CUWT_GetByEmail(p) ==
    /\ pc[p] = "tfn_lookup"
    /\ \E ok \in BOOLEAN : \E got \in GetByEmail(p, ctx[p], req[p].email, ok) :
        /\ RepoCall(p, "GetByEmail", ctx[p])
        /\ LET h == [hist[p] EXCEPT !.lookup = LookupAnswer(got, ok)] IN
           IF got.user # NoUser
           THEN FnReturns(p, h, ErrEmailExists, Len(flog[p]))
           ELSE IF HashFails(req[p].password)
           THEN FnReturns(p, h, <<"failed to hash password">>, Len(flog[p]))
           ELSE /\ pc' = [pc EXCEPT ![p] = "tfn_insert"]
                /\ hist' = [hist EXCEPT ![p] = h]
                /\ UNCHANGED frames
    /\ req' = [req EXCEPT ![p].password = ""]
    /\ UNCHANGED <<users, nextID, op, cur, ctx, txOpen, flog, result, menu, rest>>

\* fn, lines 335-360: Create on txCtx, then fn returns
CUWT_Create(p) ==
    /\ pc[p] = "tfn_insert"
    /\ \E ok \in BOOLEAN :
        LET err == IF ok THEN Nil ELSE CreateErr IN
        /\ ok => nextID <= MaxID
        /\ Create(p, ctx[p], req[p].email, req[p].name, ok)
        /\ cur' = [cur EXCEPT ![p] =
                      IF ok THEN [id |-> nextID, email |-> req[p].email,
                                  name |-> req[p].name]
                            ELSE [NoUser EXCEPT !.email = req[p].email,
                                                !.name = req[p].name]]
        /\ FnReturns(p, [hist[p] EXCEPT !.written = ok, !.writeErr = err],
                     err, Len(flog[p]) + 1)
    /\ UNCHANGED <<op, req, ctx, txOpen, result, menu, rest>>

CUWT_Publish(p) ==
    /\ pc[p] = "cu_publish" /\ op[p] = "CreateUserWithTransaction"
    /\ \E ok \in BOOLEAN : Publish(p, ok)

CUWT_Enqueue(p) ==
    /\ pc[p] = "cu_enqueue" /\ op[p] = "CreateUserWithTransaction"
    /\ \E ok \in BOOLEAN : Enqueue(p, ok)

(* ---------- a unit of work: WithTransaction(ctx, fn) for any fn ---------- *)
\* what fn writes and reads (docs/transaction_usage.md: every call on txCtx)
FnRow == [id |-> 0, email |-> "a@x", name |-> "ann"]
FnTarget == [id |-> 1, email |-> "a@x", name |-> "bob"]
\* fn returns nil, an error of its own, or the error of its last statement
FnErrors(p) ==
    {ErrFn} \cup (IF flog[p] # <<>> /\ flog[p][Len(flog[p])].err # Nil
                  THEN {flog[p][Len(flog[p])].err} ELSE {})

StartUnitOfWork(p) ==
    /\ Start(p, "UnitOfWork", NoReq)
    /\ pc' = [pc EXCEPT ![p] = "wt_enter"]

InFn(p) == pc[p] = "fn" /\ hist[p].fnOps < MaxFnOps

Fn_Create(p) ==
    /\ InFn(p)
    /\ \E ok \in BOOLEAN :
        /\ ok => nextID <= MaxID
        /\ Create(p, ctx[p], FnRow.email, FnRow.name, ok)
    /\ hist' = [hist EXCEPT ![p].fnOps = @ + 1]
    /\ UNCHANGED <<pc, op, req, cur, ctx, txOpen, frames, result, menu, rest>>

Fn_Update(p) ==
    /\ InFn(p)
    /\ \E ok \in BOOLEAN :
        /\ CanWrite(p, FnTarget.id, ok)
        /\ Update(p, ctx[p], FnTarget, ok)
    /\ hist' = [hist EXCEPT ![p].fnOps = @ + 1]
    /\ UNCHANGED <<nextID, pc, op, req, cur, ctx, txOpen, frames, result, menu, rest>>

Fn_Delete(p) ==
    /\ InFn(p)
    /\ \E ok \in BOOLEAN :
        /\ CanWrite(p, FnTarget.id, ok)
        /\ Delete(p, ctx[p], FnTarget.id, ok)
    /\ hist' = [hist EXCEPT ![p].fnOps = @ + 1]
    /\ UNCHANGED <<nextID, pc, op, req, cur, ctx, txOpen, frames, result, menu, rest>>

\* the four reading methods of the repository; fn goes on whatever they return
Fn_Read(p) ==
    /\ InFn(p)
    /\ \E name \in {"GetByID", "GetByEmail", "GetAll", "Count"} :
          RepoCall(p, name, ctx[p])
    /\ hist' = [hist EXCEPT ![p].fnOps = @ + 1]
    /\ UNCHANGED <<users, nextID, pc, op, req, cur, ctx, txOpen, frames, flog,
                   result, menu, rest>>

\* fn calls WithTransaction again, with the context it was given
Fn_CallNested(p) ==
    /\ pc[p] = "fn"
    /\ Len(frames[p]) < MaxDepth
    /\ pc' = [pc EXCEPT ![p] = "wt_enter"]
    /\ UNCHANGED <<users, nextID, op, req, cur, ctx, txOpen, frames, flog,
                   lastCall, hist, result, menu, rest>>

Fn_Return(p) ==
    /\ pc[p] = "fn"
    /\ \E err \in {Nil} \cup FnErrors(p) : FnReturns(p, hist[p], err, Len(flog[p]))
    /\ UNCHANGED <<users, nextID, op, req, cur, ctx, txOpen, flog, lastCall,
                   result, menu, rest>>

\* fn panics: the frames of nested calls have no deferred function, the panic
\* unwinds to the deferred function of the outermost call
Fn_Panic(p) ==
    /\ pc[p] = "fn"
    /\ \E v \in PanicVals :
        hist' = [hist EXCEPT ![p].panicked = TRUE, ![p].panicVal = v]
    /\ frames' = [frames EXCEPT ![p] = SubSeq(@, 1, 1)]
    /\ pc' = [pc EXCEPT ![p] = "wt_recover"]
    /\ UNCHANGED <<users, nextID, op, req, cur, ctx, txOpen, flog, lastCall, result, menu, rest>>

WithTransactionStep(p) ==
    \/ WithTransaction_Enter(p)
    \/ WithTransaction_Rollback(p)
    \/ WithTransaction_Commit(p)

Next ==
    \/ \E p \in Procs : StartCreateUser(p)
    \/ \E p \in Procs : CreateUser_GetByEmail(p)
    \/ \E p \in Procs : CreateUser_Create(p)
    \/ \E p \in Procs : CreateUser_Publish(p)
    \/ \E p \in Procs : CreateUser_Enqueue(p)
    \/ \E p \in Procs : StartGetUserByID(p)
    \/ \E p \in Procs : GetUserByID(p)
    \/ \E p \in Procs : StartUpdateUser(p)
    \/ \E p \in Procs : UpdateUser_GetByID(p)
    \/ \E p \in Procs : UpdateUser_GetByEmail(p)
    \/ \E p \in Procs : UpdateUser_Update(p)
    \/ \E p \in Procs : UpdateUser_Enqueue(p)
    \/ \E p \in Procs : StartDeleteUser(p)
    \/ \E p \in Procs : DeleteUser(p)
    \/ \E p \in Procs : StartCreateUserWithTransaction(p)
    \/ \E p \in Procs : WithTransactionStep(p)
    \/ \E p \in Procs : CUWT_GetByEmail(p)
    \/ \E p \in Procs : CUWT_Create(p)
    \/ \E p \in Procs : CUWT_Publish(p)
    \/ \E p \in Procs : CUWT_Enqueue(p)
    \/ \E p \in Procs : Respond(p)

Spec == Init /\ [][Next]_vars

NextTx ==
    \/ \E p \in Procs : StartUnitOfWork(p)
    \/ \E p \in Procs : WithTransactionStep(p)
    \/ \E p \in Procs : WithTransaction_Recover(p)
    \/ \E p \in Procs : Recovery(p)
    \/ \E p \in Procs : Fn_Create(p)
    \/ \E p \in Procs : Fn_Update(p)
    \/ \E p \in Procs : Fn_Delete(p)
    \/ \E p \in Procs : Fn_CallNested(p)
    \/ \E p \in Procs : Fn_Return(p)
    \/ \E p \in Procs : Fn_Panic(p)
    \/ \E p \in Procs : Respond(p)

SpecTx == InitTx /\ [][NextTx]_vars

\* two goroutines serving CreateUser requests at the same time
InitRace ==
    /\ InitStore
    /\ menu = [p \in Procs |-> {"CreateUser"}]

NextRace ==
    \/ \E p \in Procs : StartCreateUser(p)
    \/ \E p \in Procs : CreateUser_GetByEmail(p)
    \/ \E p \in Procs : CreateUser_Create(p)
    \/ \E p \in Procs : CreateUser_Publish(p)
    \/ \E p \in Procs : CreateUser_Enqueue(p)
    \/ \E p \in Procs : Respond(p)

SpecRace == InitRace /\ [][NextRace]_vars

\* one goroutine creating users and listing them
InitList ==
    /\ InitStore
    /\ menu = [p \in Procs |-> IF p = "p1" THEN {"CreateUser", "GetAllUsers"} ELSE {}]

NextList ==
    \/ \E p \in Procs : StartCreateUser(p)
    \/ \E p \in Procs : CreateUser_GetByEmail(p)
    \/ \E p \in Procs : CreateUser_Create(p)
    \/ \E p \in Procs : CreateUser_Publish(p)
    \/ \E p \in Procs : CreateUser_Enqueue(p)
    \/ \E p \in Procs : StartGetAllUsers(p)
    \/ \E p \in Procs : GetAllUsers_GetAll(p)
    \/ \E p \in Procs : GetAllUsers_Count(p)
    \/ \E p \in Procs : GetAllUsers_GetAllReturn(p)
    \/ \E p \in Procs : GetAllUsers_CountReturn(p)
    \/ \E p \in Procs : GetAllUsers_Wait(p)
    \/ \E p \in Procs : Respond(p)

SpecList == InitList /\ [][NextList]_vars

\* one goroutine serving HTTP requests one after the other
InitHttp ==
    /\ InitStore
    /\ menu = [p \in Procs |-> IF p = "p1" THEN {"POST", "GET", "PUT", "DELETE"} ELSE {}]

NextHttp ==
    \/ CacheExpire
    \/ \E p \in Procs :
        \/ Http_CreateUser(p)
        \/ CreateUser_GetByEmail(p)
        \/ CreateUser_Create(p)
        \/ CreateUser_Publish(p)
        \/ CreateUser_Enqueue(p)
        \/ Http_CreateUserEnd(p)
        \/ Http_GetUserByID(p)
        \/ GetUserByID(p)
        \/ Http_GetUserByIDEnd(p)
        \/ Http_UpdateUser(p)
        \/ UpdateUser_GetByID(p)
        \/ UpdateUser_GetByEmail(p)
        \/ UpdateUser_Update(p)
        \/ UpdateUser_Enqueue(p)
        \/ Http_UpdateUserEnd(p)
        \/ Http_DeleteUser(p)
        \/ DeleteUser(p)
        \/ Http_DeleteUserEnd(p)
        \/ Http_Done(p)

SpecHttp == InitHttp /\ [][NextHttp]_vars

\* one GET /api/v1/users request with a query string
InitQuery ==
    /\ InitServer
    /\ menu = [p \in Procs |-> {}]
    /\ \E q \in ListQueries :
        listReq = [NoListReq EXCEPT !.params = q.params, !.sort = q.sort, !.stage = "sorts"]

NextQuery ==
    \/ List_ParseSorts
    \/ List_ParseFilters
    \/ List_GetAllUsers

SpecQuery == InitQuery /\ [][NextQuery]_vars

\* one client creates and updates users while another reads them
InitStale ==
    /\ InitStore
    /\ menu = [p \in Procs |-> IF p = "p1" THEN {"POST", "PUT"} ELSE {"GET"}]

NextStale ==
    \/ CacheExpire
    \/ \E p \in Procs :
        \/ Http_CreateUser(p)
        \/ CreateUser_GetByEmail(p)
        \/ CreateUser_Create(p)
        \/ CreateUser_Publish(p)
        \/ CreateUser_Enqueue(p)
        \/ Http_CreateUserEnd(p)
        \/ Http_GetUserByID(p)
        \/ GetUserByID(p)
        \/ Http_GetUserByIDEnd(p)
        \/ Http_UpdateUser(p)
        \/ UpdateUser_GetByID(p)
        \/ UpdateUser_GetByEmail(p)
        \/ UpdateUser_Update(p)
        \/ UpdateUser_Enqueue(p)
        \/ Http_UpdateUserEnd(p)
        \/ Http_Done(p)

SpecStale == InitStale /\ [][NextStale]_vars

\* two goroutines update users that one of them creates
InitUpd ==
    /\ InitStore
    /\ menu = [p \in Procs |-> IF p = "p1" THEN {"CreateUser", "UpdateUser"}
                                           ELSE {"UpdateUser"}]

NextUpd ==
    \/ \E p \in Procs : StartCreateUser(p)
    \/ \E p \in Procs : CreateUser_GetByEmail(p)
    \/ \E p \in Procs : CreateUser_Create(p)
    \/ \E p \in Procs : CreateUser_Publish(p)
    \/ \E p \in Procs : CreateUser_Enqueue(p)
    \/ \E p \in Procs : StartUpdateUser(p)
    \/ \E p \in Procs : UpdateUser_GetByID(p)
    \/ \E p \in Procs : UpdateUser_GetByEmail(p)
    \/ \E p \in Procs : UpdateUser_Update(p)
    \/ \E p \in Procs : UpdateUser_Enqueue(p)
    \/ \E p \in Procs : Respond(p)

SpecUpd == InitUpd /\ [][NextUpd]_vars

\* main of the worker process
NextMain ==
    \/ Main_Start
    \/ Signal
    \/ Main_Shutdown
    \/ Main_Close
    \/ Main_Exit

\* the worker process: main and the subscription goroutines
NextWorker ==
    \/ NextMain
    \/ \E s \in Subs :
        \/ Sub_Subscribe(s)
        \/ Sub_ReceiveReturns(s)
        \/ \E m \in Msgs :
            \/ Sub_Deliver(s, m)
            \/ Sub_HandlerReturns(s, m)
            \/ Sub_HandlerPanics(s, m)

\* the worker process: main and the task server
NextTask ==
    \/ NextMain
    \/ \E t \in Tasks :
        \/ Task_Enqueue(t)
        \/ Task_Unmarshal(t)
        \/ Task_Send(t)
        \/ Task_Settle(t)

InitWorker ==
    /\ InitStore
    /\ menu = [p \in Procs |-> {}]

SpecTask == InitWorker /\ [][NextTask]_vars

\* what the scheduler and the code guarantee to happen: main runs on, a
\* started subscription goroutine reaches Receive, a handler that does not
\* panic returns, and Receive returns once it can. Signals, deliveries and
\* panics are not guaranteed to happen
FairWorker ==
    /\ WF_vars(Main_Start) /\ WF_vars(Main_Shutdown)
    /\ WF_vars(Main_Close) /\ WF_vars(Main_Exit)
    /\ \A s \in Subs : WF_vars(Sub_Subscribe(s)) /\ WF_vars(Sub_ReceiveReturns(s))
    /\ \A s \in Subs, m \in Msgs : WF_vars(Sub_HandlerReturns(s, m))

SpecWorkerLive == InitWorker /\ [][NextWorker]_vars /\ FairWorker

SpecWorker == InitWorker /\ [][NextWorker]_vars

\* two goroutines of one process publish, and the process closes the client
NextPub ==
    \/ \E p \in Procs :
        \/ \E t \in Topics : Pub_Load(p, t)
        \/ Pub_Create(p)
        \/ Pub_LoadOrStore(p)
    \/ Client_Close

SpecPub == InitWorker /\ [][NextPub]_vars

(* ---------- properties of WithTransaction (SpecTx) ---------- *)
\* a occurs in b as a contiguous piece
IsInfix(a, b) ==
    \E i \in 0..(Len(b) - Len(a)) : SubSeq(b, i + 1, i + Len(a)) = a

\* the unit of work of C1: the first write went through, the second failed,
\* fn returned the error of the second, WithTransaction has returned
C1_Case(p) ==
    /\ op[p] = "UnitOfWork" /\ hist[p].wtReturned
    /\ Len(flog[p]) >= 2
    /\ flog[p][1].err = Nil /\ flog[p][2].err # Nil
    /\ hist[p].fnErr = flog[p][2].err

\* C1: when the first write of a unit of work succeeded, the second failed and
\* fn returned that error, then after WithTransaction has returned a read
\* outside the transaction (GetByID on a context without transaction) gives
\* what it gave before the call: the first write is not observable.
C1_RolledBackWriteNotObserved ==
    \A p \in Procs : C1_Case(p) =>
        LET first == flog[p][1].op
            read == GetByID(p, BackgroundCtx, first.row.id, TRUE)
        IN
        /\ read = Lookup({r \in hist[p].before : r.id = first.row.id}, TRUE)
        /\ first.kind = "ins" => read = {[user |-> NoUser, err |-> ErrUserNotFound]}

C1_Witness ==
    \E p \in Procs : C1_Case(p) /\ flog[p][1].op.kind = "ins" /\ pc[p] = "done"

\* C2, as stated: whenever a call to WithTransaction, nested calls included,
\* has returned an error, none of the writes of its fn is durable.
C2_NoFailedCallIsDurable ==
    \A p \in Procs : hist[p].failedOps \cap hist[p].committedOps = {}

\* C2, amended: whenever an outermost call to WithTransaction has returned a
\* non-nil error, no write of its fn or of the calls nested in it is durable:
\* the committed store is what it was before the call.
C2_FailedOutermostCallIsNotDurable ==
    \A p \in Procs :
        (op[p] = "UnitOfWork" /\ hist[p].wtReturned /\ hist[p].wtRet # Nil) =>
            /\ users = hist[p].before
            /\ hist[p].committedOps = {}

C2_Witness ==
    \E p \in Procs :
        /\ op[p] = "UnitOfWork" /\ hist[p].wtReturned /\ hist[p].wtRet # Nil
        /\ PendingIdx(p) # {}

\* C3: a call of WithTransaction with a context that carries a transaction
\* begins none and neither commits nor rolls back; fn runs on the same
\* context; at any depth one transaction is open, and it is committed or
\* rolled back by the outermost call only, on the result of the outermost fn:
\* the commit takes every pending write, those of failed inner calls included.
C3_NestedCallsShareOneTransaction ==
    \A p \in Procs :
        LET h == hist[p]
            n == Len(frames[p])
        IN
        /\ h.begins <= 1
        /\ n >= 1 => /\ h.begins = 1 /\ txOpen[p] /\ ctx[p].tx
                     /\ frames[p][1].owner
                     /\ \A i \in 2..n : ~frames[p][i].owner
        /\ (n >= 1 /\ ~h.fnReturned /\ ~h.panicked) =>
               h.commits = 0 /\ h.rollbacks = 0 /\ users = h.before
        /\ h.commits + h.rollbacks <= 1
        /\ h.commits = 1 => h.fnReturned /\ h.fnErr = Nil
        /\ (h.rollbacks = 1 /\ ~h.panicked) => h.fnReturned /\ h.fnErr # Nil
        /\ (h.wtReturned /\ h.committed) =>
               /\ users = ApplyAll(h.before, Pending(p))
               /\ h.committedOps = PendingIdx(p)

C3_Witness ==
    \E p \in Procs :
        /\ hist[p].wtReturned /\ hist[p].committed
        /\ hist[p].failedOps \cap hist[p].committedOps # {}

\* C4: when fn of the outermost call returned an error, rollback is issued
\* once and commit never; the call returns that error unchanged when the
\* rollback succeeded, and an error that holds both the rollback failure and
\* the original error when the rollback failed.
C4_FnErrorRollsBackOnce ==
    \A p \in Procs :
        LET h == hist[p] IN
        (h.fnReturned /\ h.fnErr # Nil) =>
            /\ h.commits = 0 /\ h.rollbacks <= 1
            /\ h.wtReturned =>
                  /\ h.rollbacks = 1
                  /\ h.rbErr = Nil => h.wtRet = h.fnErr
                  /\ h.rbErr # Nil => /\ h.wtRet # h.fnErr
                                      /\ IsInfix(h.rbErr, h.wtRet)
                                      /\ IsInfix(h.fnErr, h.wtRet)

C4_Witness ==
    \E p \in Procs :
        hist[p].wtReturned /\ hist[p].fnErr # Nil /\ hist[p].rbErr # Nil

\* C5: when fn of the outermost call returned nil, commit is issued once and
\* rollback never; WithTransaction returns nil exactly when the transaction
\* was begun, fn returned nil and the commit succeeded; a failed commit is
\* returned as an error.
C5_FnNilCommitsOnce ==
    \A p \in Procs :
        LET h == hist[p] IN
        /\ (h.fnReturned /\ h.fnErr = Nil) =>
               /\ h.rollbacks = 0 /\ h.commits <= 1
               /\ h.wtReturned => h.commits = 1
        /\ h.wtReturned =>
               ((h.wtRet = Nil) <=>
                    (h.begins = 1 /\ h.fnReturned /\ h.fnErr = Nil /\ h.committed))
        /\ (h.wtReturned /\ h.commits = 1 /\ ~h.committed) => IsInfix(ErrStore, h.wtRet)

C5_Witness ==
    \E p \in Procs :
        hist[p].wtReturned /\ hist[p].commits = 1 /\ ~hist[p].committed

\* C6: when fn panicked inside an outermost call, the transaction is rolled
\* back and never committed, the same panic value leaves WithTransaction, and
\* WithTransaction does not return.
C6_PanicRollsBackAndPropagates ==
    \A p \in Procs :
        LET h == hist[p] IN
        h.panicked =>
            /\ h.commits = 0 /\ ~h.committed /\ ~h.wtReturned
            /\ users = h.before
            /\ pc[p] \in {"wt_recover", "panicked", "done"}
            /\ pc[p] \in {"panicked", "done"} =>
                  h.rollbacks = 1 /\ h.repanicked = h.panicVal /\ ~txOpen[p]
            /\ pc[p] = "done" =>
                  result[p].status = "panic-500" /\ result[p].err = <<h.panicVal>>

C6_Witness ==
    \E p \in Procs :
        /\ pc[p] = "panicked" /\ hist[p].panicVal = "bang"
        /\ PendingIdx(p) # {}

\* one goroutine calling the repository inside and outside a transaction
InitRepo ==
    /\ InitStore
    /\ menu = [p \in Procs |->
                  IF p = "p1" THEN {"UnitOfWork", "GetUserByID", "DeleteUser"} ELSE {}]

NextRepo ==
    \/ \E p \in Procs : StartUnitOfWork(p)
    \/ \E p \in Procs : WithTransactionStep(p)
    \/ \E p \in Procs : Fn_Create(p)
    \/ \E p \in Procs : Fn_Update(p)
    \/ \E p \in Procs : Fn_Delete(p)
    \/ \E p \in Procs : Fn_Read(p)
    \/ \E p \in Procs : Fn_Return(p)
    \/ \E p \in Procs : StartGetUserByID(p)
    \/ \E p \in Procs : GetUserByID(p)
    \/ \E p \in Procs : StartDeleteUser(p)
    \/ \E p \in Procs : DeleteUser(p)
    \/ \E p \in Procs : Respond(p)

SpecRepo == InitRepo /\ [][NextRepo]_vars

(* ---------- properties of the repository (SpecRepo) ---------- *)
\* C7: every repository method runs its statement on the transaction when its
\* context carries one and on the pool when it carries none; a statement
\* issued with a transaction-carrying context never reaches the pool, so the
\* committed rows stay what they were while the transaction is open.
C7_RepositoryUsesExecutorOfContext ==
    /\ \A c \in {BackgroundCtx, WithValueTx(BackgroundCtx)} :
          getExecutor(c) = IF c.tx THEN "tx" ELSE "pool"
    /\ \A p \in Procs :
          /\ lastCall[p].op # "" =>
                lastCall[p].exec = IF lastCall[p].tx THEN "tx" ELSE "pool"
          /\ \A i \in 1..Len(flog[p]) : flog[p][i].exec = "tx"
          /\ txOpen[p] => users = hist[p].before

C7_Witness ==
    \E p \in Procs :
        /\ lastCall[p] = [op |-> "Update", tx |-> TRUE, exec |-> "tx"]
        /\ txOpen[p] /\ PendingIdx(p) # {} /\ users # {}

(* ---------- properties of the usecases (Spec) ---------- *)
\* a CreateUser or CreateUserWithTransaction call whose insert went through
C8_Inserted(p) ==
    /\ op[p] \in {"CreateUser", "CreateUserWithTransaction"}
    /\ hist[p].written

C9_Dispatching(p) ==
    \/ hist[p].pub # "none"
    \/ hist[p].enq # "none"
    \/ pc[p] \in {"cu_publish", "cu_enqueue", "uu_enqueue"}

\* C9: a publish or an enqueue is attempted only once the write of the call is
\* committed: never while the transaction of the call is open, never after
\* WithTransaction returned an error, never after the repository write of
\* CreateUser or UpdateUser returned an error.
C9_DispatchOnlyAfterCommit ==
    \A p \in Procs :
        C9_Dispatching(p) =>
            /\ ~txOpen[p] /\ ~hist[p].dispatchInTx
            /\ hist[p].written /\ hist[p].writeErr = Nil
            /\ op[p] = "CreateUserWithTransaction" =>
                  hist[p].wtReturned /\ hist[p].wtRet = Nil /\ hist[p].committed
            /\ cur[p] \in users

C9_Witness ==
    \E p \in Procs :
        /\ op[p] = "CreateUserWithTransaction" /\ pc[p] = "cu_enqueue"
        /\ hist[p].pub = "fail"

\* the call of p can return to its caller in one step
C10_CanReturn(p) == ENABLED (Next /\ pc'[p] = "done")

C11_SameEmailPair(p, q) ==
    /\ p # q
    /\ op[p] = "CreateUser" /\ op[q] = "CreateUser"
    /\ pc[p] = "done" /\ pc[q] = "done"
    /\ req[p].email = req[q].email
    /\ \A x \in {p, q} :
          /\ hist[x].lookup \in {"found", "absent"}
          /\ hist[x].writeErr = Nil
          /\ result[x].status = "ok" \/ result[x].err = ErrEmailExists
    /\ \A r \in users : r.email = req[p].email => r \in {cur[p], cur[q]}

\* C11: of two concurrent CreateUser calls with the same email, no user with
\* that email being stored before, exactly one succeeds and the other returns
\* an error, under every interleaving of their lookups and inserts.
C11_ExactlyOneCreateSucceeds ==
    \A p, q \in Procs :
        C11_SameEmailPair(p, q) =>
            Cardinality({x \in {p, q} : result[x].status = "ok"}) = 1

\* C12: in every reachable state of the store no two users have the same
\* email.
C12_EmailsAreUnique ==
    \A r1, r2 \in users : r1.email = r2.email => r1 = r2

\* C13: a CreateUser call whose email belongs to a user stored before the call
\* returns an error after its lookup, adds no row and attempts neither publish
\* nor enqueue.
C13_ExistingEmailIsRefused ==
    \A p \in Procs :
        ( /\ op[p] = "CreateUser" /\ pc[p] # "cu_lookup"
          /\ \E r \in users : r.email = req[p].email /\ r # cur[p] ) =>
            /\ pc[p] = "done" /\ result[p].status = "err"
            /\ ~hist[p].written /\ cur[p] = NoUser
            /\ hist[p].pub = "none" /\ hist[p].enq = "none"

(* ---------- properties of GetAllUsers (SpecList) ---------- *)
\* C14: GetAllUsers runs the list query and the count query in two goroutines
\* and, however they interleave, returns an error and no data when at least one
\* of the two queries failed; it returns data only when both succeeded.
C14_ListFailsIfEitherQueryFails ==
    \A p \in Procs :
        (op[p] = "GetAllUsers" /\ pc[p] = "done") =>
            /\ (ga[p].listErr # Nil \/ ga[p].countErr # Nil) =>
                  result[p].status = "err" /\ ga[p].out = NoList.out
            /\ result[p].status = "ok" =>
                  ga[p].listErr = Nil /\ ga[p].countErr = Nil

(* ---------- properties of the HTTP delivery (SpecHttp) ---------- *)
\* a PUT or DELETE on /api/v1/users/{id} has answered 200 and its cache delete
\* succeeded
C15_Invalidated(p) ==
    /\ pc[p] = "sent"
    /\ http[p].method \in {"PUT", "DELETE"}
    /\ http[p].status = 200
    /\ http[p].del = "ok"

\* the key under which the cache middleware stores the answer to a GET on the
\* request URI of p's request
C15_GetKey(p) == GetCacheKey([http[p] EXCEPT !.method = "GET"])

C16_AllowedItem(item) ==
    LET seg == Split(item, ":") IN
    /\ Len(seg) = 2
    /\ seg[1] \in DOMAIN getAllUsersAllowedSorts
    /\ seg[2] \in {<<"asc">>, <<"desc">>}

\* the request carries a sort parameter made of such items, and besides it only
\* the pagination and the allowed filters
C16_Case ==
    /\ "sort" \in listReq.params
    /\ listReq.sort # <<>>
    /\ \A i \in 1..Len(Split(listReq.sort, ",")) :
           C16_AllowedItem(Split(listReq.sort, ",")[i])
    /\ listReq.params \subseteq getAllUsersAllowedFilters \cup {"page", "limit", "sort"}

\* C16: a list request whose sort parameter names an allowed field with an asc
\* or desc direction (sort=name:desc) is accepted: it passes the sort parsing
\* and the filter parsing, is not answered with 400, and reaches GetAllUsers
\* with that ordering
C16_AllowedSortIsAccepted ==
    (C16_Case /\ listReq.stage = "answered")
        => /\ listReq.status # 400
           /\ listReq.called
           /\ listReq.orderBy # <<>>
           /\ listReq.orderBy[1][1] =
                  getAllUsersAllowedSorts[Split(Split(listReq.sort, ",")[1], ":")[1]]

\* an item whose field is outside the allow-list, or whose direction (what
\* follows the first ":") is neither asc nor desc in any letter case
C17_InvalidItem(item) ==
    LET seg == Split(item, ":") IN
    \/ seg[1] \notin DOMAIN getAllUsersAllowedSorts
    \/ Len(seg) > 2
    \/ Len(seg) = 2 /\ ToLower(seg[2]) \notin {<<"asc">>, <<"desc">>}

\* C17: ParseSorts returns a validation error and no sort list for every sort
\* string with an item that names a field outside the allow-list or a direction
\* other than asc or desc, items with more than one ":" and repeated fields
\* included; when it succeeds every entry has a column of the allow-list and a
\* direction asc or desc
C17_ParseSortsRejectsInvalidItems ==
    (listReq.stage \notin {"none", "sorts"} /\ listReq.sort # <<>>)
        => /\ (\E i \in 1..Len(Split(listReq.sort, ",")) :
                   C17_InvalidItem(Split(listReq.sort, ",")[i]))
                => (listReq.sortErr # Nil /\ listReq.sorts = <<>>)
           /\ listReq.sortErr = Nil
                => \A i \in 1..Len(listReq.sorts) :
                      /\ \E k \in DOMAIN getAllUsersAllowedSorts :
                            listReq.sorts[i].Field = getAllUsersAllowedSorts[k]
                      /\ listReq.sorts[i].Direction \in {"asc", "desc"}

(* ---------- properties of UpdateUser (Spec) ---------- *)
\* the stored row with this id
C18_Row(S, id) == CHOOSE r \in S : r.id = id

\* the UPDATE of UpdateUser succeeded in this step
C18_Updated(p) ==
    /\ op[p] = "UpdateUser"
    /\ pc[p] = "uu_update"
    /\ pc'[p] = "uu_enqueue"

C19_Answered(p) ==
    /\ pc[p] = "sent"
    /\ http[p].method \in {"GET", "PUT", "DELETE"}
    /\ result[p].status = "err"

\* C19: at the HTTP boundary every not-found outcome is answered with 404 and
\* every internal store failure with 500, for GET, PUT and DELETE on
\* /api/v1/users/{id}
C19_NotFoundIs404StoreFailureIs500 ==
    \A p \in Procs :
        C19_Answered(p) =>
            /\ result[p].err = ErrUserNotFound => http[p].status = 404
            /\ IsInfix(ErrStore, result[p].err) => http[p].status = 500

(* ---------- properties of the lookups (Spec) ---------- *)
\* GetUserByID or UpdateUser has returned and its id is not stored
C20_ReturnedForAbsentID(p) ==
    /\ pc[p] = "done"
    /\ op[p] \in {"GetUserByID", "UpdateUser"}
    /\ req[p].id \notin IdsOf(users)

\* C20: GetByID and GetByEmail return an error and never a user when the query
\* matches no row, so GetUserByID and UpdateUser for an id that is not stored
\* return an error and no user, and issue no write
C20_AbsentRowIsNotFound ==
    \A p \in Procs :
        /\ C20_ReturnedForAbsentID(p) =>
               /\ result[p].status = "err"
               /\ result[p].err \in {ErrUserNotFound, Wrap("failed to get user", ErrStore)}
               /\ result[p].user = NoUser
               /\ lastCall[p].op = "GetByID"
               /\ ~hist[p].written
        /\ (/\ op[p] = "CreateUser"
            /\ pc[p] = "cu_insert"
            /\ \A r \in users : r.email # req[p].email)
               => hist[p].lookup \in {"absent", "error"}

\* UpdateUser for an id that is not stored, next to a stored user, was refused
\* with "user not found"
C20_Witness ==
    \E p \in Procs :
        /\ C20_ReturnedForAbsentID(p)
        /\ op[p] = "UpdateUser"
        /\ users # {}
        /\ result[p].err = ErrUserNotFound

(* ---------- properties of DeleteUser (Spec) ---------- *)
\* the DELETE of DeleteUser has been issued and the call returns in this step
C21_Returns(p) ==
    /\ op[p] = "DeleteUser"
    /\ pc[p] = "du_delete"
    /\ pc'[p] = "done"

\* C21: DeleteUser(id) succeeds if and only if a user with that id is stored at
\* the time of the call; on success exactly that row is removed and all others
\* are unchanged; on an id that is not stored it returns not-found and changes
\* nothing
C21_DeleteSucceedsIffStored ==
    [][\A p \in Procs :
          C21_Returns(p) =>
              LET id == req[p].id IN
              /\ result'[p].status = "ok" <=> id \in IdsOf(users)
              /\ result'[p].status = "ok" => users' = {r \in users : r.id # id}
              /\ id \notin IdsOf(users)
                    => (result'[p].err = ErrUserNotFound /\ users' = users)]_vars

\* C21 with the failure of the statement set apart: DeleteUser succeeds only if
\* the id is stored, and then removes exactly that row; it fails with not-found
\* exactly when the statement ran and the id is not stored, with the wrapped
\* store error exactly when the statement failed, and a failed call changes
\* nothing
C21_DeleteSucceedsOnlyIfStored ==
    [][\A p \in Procs :
          C21_Returns(p) =>
              LET id == req[p].id
                  failed == Wrap("failed to delete user", ErrStore)
              IN
              /\ result'[p].status = "ok" => id \in IdsOf(users)
              /\ result'[p].status = "ok" => users' = {r \in users : r.id # id}
              /\ result'[p].status = "ok" => IdsOf(users') = IdsOf(users) \ {id}
              /\ result'[p].status # "ok" => users' = users
              /\ result'[p].status # "ok" => result'[p].err \in {ErrUserNotFound, failed}
              /\ result'[p].err = ErrUserNotFound => id \notin IdsOf(users)
              /\ (id \in IdsOf(users) /\ result'[p].err # failed)
                    => result'[p].status = "ok"]_vars

\* a DeleteUser that removed one of two stored users
C21_Witness ==
    \E p \in Procs :
        /\ op[p] = "DeleteUser" /\ pc[p] = "done"
        /\ result[p].status = "ok"
        /\ hist[p].written
        /\ Cardinality(users) = 1
        /\ req[p].id \notin IdsOf(users)

(* ---------- C22 ---------- *)
C22_Returned(s, m) == wk.msg[s][m].st = "returned"

\* C22: every message delivered to Client.Subscribe whose handler returned got
\* exactly one disposition: one Ack and no Nack when the handler returned nil,
\* one Nack and no Ack when it returned an error
C22_ExactlyOneDisposition ==
    \A s \in Subs, m \in Msgs :
        C22_Returned(s, m) =>
            /\ wk.msg[s][m].acks + wk.msg[s][m].nacks = 1
            /\ wk.msg[s][m].ret = "nil" => wk.msg[s][m].acks = 1
            /\ wk.msg[s][m].ret = "err" => wk.msg[s][m].nacks = 1

\* one subscription has had a handler return nil and a handler return an error
C22_Witness ==
    \E s \in Subs, m, n \in Msgs :
        /\ C22_Returned(s, m) /\ wk.msg[s][m].ret = "nil" /\ wk.msg[s][m].acks = 1
        /\ C22_Returned(s, n) /\ wk.msg[s][n].ret = "err" /\ wk.msg[s][n].nacks = 1

(* ---------- C23 ---------- *)
C23_Panicked(s, m) == wk.msg[s][m].st = "panicked"

\* C23: a panic of a subscription message handler is caught by the recovery of
\* SubscribeUserCreated and goes no further, so the process lives on, and the
\* message that was being handled is neither acked nor nacked
C23_HandlerPanicIsRecovered ==
    \A s \in Subs, m \in Msgs :
        C23_Panicked(s, m) =>
            /\ wk.recovered /\ ~wk.crashed
            /\ wk.msg[s][m].acks = 0 /\ wk.msg[s][m].nacks = 0

(* ---------- C25 ---------- *)
C25_Returned(t) == wk.task[t].ret # <<"none">>

\* C25: HandleTelegramMessageTask returns nil exactly when the payload decoded
\* and the send succeeded; for a payload that does not decode it returns an
\* error that is SkipRetry and has attempted no send; for a failed send it
\* returns an error that is not SkipRetry
C25_TelegramTaskResult ==
    \A t \in Tasks :
        C25_Returned(t) =>
            /\ wk.task[t].ret = Nil <=> (wk.task[t].payload = "json" /\ wk.task[t].sent = "ok")
            /\ wk.task[t].payload # "json" =>
                   /\ wk.task[t].ret # Nil /\ IsSkipRetry(wk.task[t].ret)
                   /\ wk.task[t].sends = 0 /\ wk.task[t].sent = "none"
            /\ wk.task[t].sent = "failed" =>
                   wk.task[t].ret # Nil /\ ~IsSkipRetry(wk.task[t].ret)

\* one task was archived for its payload and another has had a failed send
C25_Witness ==
    \E t, u \in Tasks :
        /\ wk.task[t].payload = "garbage" /\ wk.task[t].st = "archived"
        /\ wk.task[u].st = "returned" /\ wk.task[u].sent = "failed"

(* ---------- C26 ---------- *)
C26_Cancelled == wk.ctx = "cancelled"

C26_AllLoopsReturned == \A s \in Subs : wk.loop[s] = "returned"

\* C26: once the shutdown signal has cancelled the shared context, every
\* subscription loop started by Worker.Start eventually stops receiving and
\* its goroutine returns
C26_LoopsReturnAfterCancel == C26_Cancelled ~> C26_AllLoopsReturned

(* ---------- C24 ---------- *)
C24_Returned(t) == {r[2] : r \in {x \in pubs.rets : x[1] = t}}

\* C24: all calls of publisher(topic) have returned the same handle, which is
\* the one handle the cache holds for the topic, and the handles of different
\* topics are different
C24_OneHandlePerTopic ==
    /\ \A t \in Topics :
        /\ Cardinality(C24_Returned(t)) <= 1
        /\ C24_Returned(t) \subseteq {pubs.map[t]} \ {0}
    /\ \A t, u \in Topics : (t # u /\ pubs.map[t] # 0) => pubs.map[t] # pubs.map[u]

\* both goroutines created a handle for the same topic in a first-use race,
\* and both calls have returned
C24_Witness ==
    /\ \A p \in Procs : pubs.call[p].at = "done" /\ pubs.call[p].mine # 0
    /\ pubs.call["p1"].topic = pubs.call["p2"].topic
    /\ pubs.call["p1"].got = pubs.call["p2"].got

(* ---------- C30 ---------- *)
\* C30: once Close has run, every handle that publisher ever created has been
\* stopped exactly once, the handle of the loser of a first-use race included
C30_EveryCreatedHandleStopped ==
    pubs.closed => \A h \in pubs.created : pubs.stops[h.id] = 1

(* ---------- C29 ---------- *)
\* the email lookup of the call failed with a store error
C29_LookupFailed(p) ==
    op[p] \in {"CreateUser", "UpdateUser"} /\ hist[p].lookup = "error"

\* C29: when the email lookup of CreateUser or UpdateUser fails with a store
\* error, the call goes on to no insert and no update, writes nothing and
\* returns an error
C29_FailedLookupStopsTheCall ==
    \A p \in Procs :
        C29_LookupFailed(p) =>
            /\ pc[p] \notin {"cu_insert", "uu_update"}
            /\ ~hist[p].written
            /\ pc[p] = "done" => result[p].status = "err"

(* ---------- C27 ---------- *)
\* the PUT of p has been answered with success, its cache delete went through,
\* and no other request is under way
C27_PutReturned(p) ==
    /\ pc[p] = "sent" /\ http[p].method = "PUT"
    /\ http[p].status = 200 /\ http[p].del = "ok"
    /\ \A o \in Procs \ {p} : pc[o] = "idle"

\* what the cache would answer to a GET on the request URI of p's PUT
C27_Cached(p) == CacheGet(GetCacheKey([http[p] EXCEPT !.method = "GET"]))

\* C27: once a PUT on /api/v1/users/{id} has returned success, a later GET on
\* it is not answered with the representation from before the update: the
\* cache holds no other value for it than the updated user, whatever GETs ran
\* next to the PUT
C27_NoStaleAnswerAfterPut ==
    \A p \in Procs :
        C27_PutReturned(p) => \A e \in C27_Cached(p) : e.val = result[p].user

(* ---------- C28 ---------- *)
\* p and q have both returned from a successful UpdateUser on the same id,
\* p's request holding only a name and q's only an email
C28_BothUpdated(p, q) ==
    /\ pc[p] = "done" /\ op[p] = "UpdateUser" /\ result[p].status = "ok"
    /\ pc[q] = "done" /\ op[q] = "UpdateUser" /\ result[q].status = "ok"
    /\ req[p].id = req[q].id
    /\ req[p].name # "" /\ req[p].email = ""
    /\ req[q].name = "" /\ req[q].email # ""

\* C28: after two concurrent UpdateUser calls on one id, one changing only the
\* name and the other only the email, the stored row has both the new name
\* and the new email
C28_BothChangesPresent ==
    \A p, q \in Procs :
        C28_BothUpdated(p, q) =>
            \E u \in users :
                u.id = req[p].id /\ u.name = req[p].name /\ u.email = req[q].email

====
